---- MODULE Spec2Model ----
(***************************************************************************)
(* A model of the WordPress Trac MCP server (src/src/index.ts).            *)
(*                                                                         *)
(* index.ts holds two revisions of the server: the current one, whose      *)
(* fetchers read the CSV export, the RSS feed and the rendered changeset   *)
(* page (lines 1-1338), and the XML-RPC one (lines 1339-2250).  The        *)
(* variable rev says which of the two a behaviour runs.                    *)
(*                                                                         *)
(* Text is modelled as a sequence of tokens.  A token is one character     *)
(* that the code tests for (a comma, a double quote, a backslash, a        *)
(* digit, white space, a line break, the byte-order mark), one of the     *)
(* marker substrings the code searches for ("<html>", "403 Forbidden"),   *)
(* or a run of characters none of which the code tests for ("alice").     *)
(***************************************************************************)
EXTENDS Integers, Sequences, FiniteSets, TLC

\* ------------------------------------------------------------------ bounds

\* Most data rows in an upstream CSV body.
MaxRows == 2

\* Most ticket ids an XML-RPC ticket.query answers with.
MaxIds == 2

\* Most items in an upstream RSS feed.
MaxItems == 2

\* ------------------------------------------------------- program constants

SearchMaxCap == 50
FallbackMaxCap == 100
FallbackFactor == 3
TimelineMaxCap == 100
DiffHardCap == 10000
SearchDefaultLimit == 10
TimelineDefaultLimit == 20
TimelineDefaultDays == 7
DiffDefaultLimit == 2000
CommentDefaultLimit == 10
CommentMaxCap == 50
FilesCap == 20
InternalErrorCode == -32603
MethodNotFoundCode == -32601
ParseErrorCode == -32700

\* ------------------------------------------------------------ text helpers

BOM == "BOM"
Digits == <<"0", "1", "2", "3", "4", "5", "6", "7", "8", "9">>
WhiteSpace == {" ", "\t", "\n", "\r", BOM}

Min(a, b) == IF a < b THEN a ELSE b

\* String.prototype.includes
Includes(s, sub) ==
    \E i \in 0..(Len(s) - Len(sub)) : SubSeq(s, i + 1, i + Len(sub)) = sub

\* String.prototype.trim (the byte-order mark is white space to trim)
RECURSIVE TrimLeft(_)
TrimLeft(s) ==
    IF s # <<>> /\ Head(s) \in WhiteSpace THEN TrimLeft(Tail(s)) ELSE s

RECURSIVE TrimRight(_)
TrimRight(s) ==
    IF s # <<>> /\ s[Len(s)] \in WhiteSpace
    THEN TrimRight(SubSeq(s, 1, Len(s) - 1))
    ELSE s

Trim(s) == TrimRight(TrimLeft(s))

\* csvData.replace(/^\uFEFF/, '')
StripBOM(s) == IF s # <<>> /\ Head(s) = BOM THEN Tail(s) ELSE s

\* String.prototype.split(sep) for a one-character separator: the pieces
\* between the separators, an empty text giving one empty piece.
RECURSIVE SplitAcc(_, _, _, _)
SplitAcc(s, sep, cur, acc) ==
    IF s = <<>> THEN Append(acc, cur)
    ELSE IF Head(s) = sep THEN SplitAcc(Tail(s), sep, <<>>, Append(acc, cur))
    ELSE SplitAcc(Tail(s), sep, Append(cur, Head(s)), acc)

Split(s, sep) == SplitAcc(s, sep, <<>>, <<>>)

\* split(/\r?\n/): a carriage return right before the line break is part of
\* the separator.
DropCR(piece) ==
    IF piece # <<>> /\ piece[Len(piece)] = "\r"
    THEN SubSeq(piece, 1, Len(piece) - 1)
    ELSE piece

SplitLines(s) ==
    LET pieces == Split(s, "\n")
    IN [i \in 1..Len(pieces) |->
            IF i < Len(pieces) THEN DropCR(pieces[i]) ELSE pieces[i]]

\* Array.prototype.join
RECURSIVE Join(_, _)
Join(pieces, sep) ==
    IF pieces = <<>> THEN <<>>
    ELSE IF Len(pieces) = 1 THEN pieces[1]
    ELSE pieces[1] \o <<sep>> \o Join(Tail(pieces), sep)

\* h.replace(/"/g, '')
RECURSIVE DropQuotes(_)
DropQuotes(s) ==
    IF s = <<>> THEN <<>>
    ELSE IF Head(s) = "\"" THEN DropQuotes(Tail(s))
    ELSE <<Head(s)>> \o DropQuotes(Tail(s))

\* String.prototype.toLowerCase on the tokens that hold upper-case letters
LowerToken(t) ==
    CASE t = "Fix" -> "fix"
      [] t = "Editor" -> "editor"
      [] t = "EDITOR" -> "editor"
      [] t = "Summary" -> "summary"
      [] t = "Owner" -> "owner"
      [] t = "Type" -> "type"
      [] t = "Status" -> "status"
      [] t = "Priority" -> "priority"
      [] t = "Milestone" -> "milestone"
      [] t = "403 Forbidden" -> "403 forbidden"
      [] OTHER -> t

ToLowerCase(s) == [i \in 1..Len(s) |-> LowerToken(s[i])]

\* The value of a digit token
DigitValue(t) == (CHOOSE i \in 1..10 : Digits[i] = t) - 1

IsDigit(t) == \E i \in 1..10 : Digits[i] = t

\* parseInt(s): white space is skipped, then a sign, then the longest run of
\* digits is read; NaN when there is no digit.
RECURSIVE DigitRun(_, _)
DigitRun(s, acc) ==
    IF s # <<>> /\ IsDigit(Head(s))
    THEN DigitRun(Tail(s), acc * 10 + DigitValue(Head(s)))
    ELSE acc

ParseIntBody(s) ==
    LET t == TrimLeft(s)
    IN IF t # <<>> /\ Head(t) \in {"-", "+"} THEN Tail(t) ELSE t

ParseIntIsNaN(s) ==
    LET b == ParseIntBody(s) IN b = <<>> \/ ~IsDigit(Head(b))

ParseInt(s) ==
    LET t == TrimLeft(s)
        v == DigitRun(ParseIntBody(s), 0)
    IN IF t # <<>> /\ Head(t) = "-" THEN 0 - v ELSE v

\* Number.prototype.toString of a non-negative integer, as digit tokens
RECURSIVE NumToStr(_)
NumToStr(n) ==
    IF n < 0 THEN <<"-">> \o NumToStr(0 - n)
    ELSE IF n < 10 THEN <<Digits[n + 1]>>
    ELSE NumToStr(n \div 10) \o <<Digits[(n % 10) + 1]>>

\* ------------------------------------------------------------- CSV parsing

\* The row parser of searchTickets: a quote opens a quoted field only at the
\* start of the line or right after a comma, and closes it only at the end of
\* the line or right before a comma; every other character is copied.
RECURSIVE SimpleParseFrom(_, _, _, _, _)
SimpleParseFrom(line, j, inQuotes, currentField, values) ==
    IF j > Len(line) THEN Append(values, Trim(currentField))
    ELSE LET char == line[j]
         IN IF char = "\"" /\ (j = 1 \/ line[j - 1] = ",")
            THEN SimpleParseFrom(line, j + 1, TRUE, currentField, values)
            ELSE IF char = "\"" /\ inQuotes /\ (j = Len(line) \/ line[j + 1] = ",")
            THEN SimpleParseFrom(line, j + 1, FALSE, currentField, values)
            ELSE IF char = "," /\ ~inQuotes
            THEN SimpleParseFrom(line, j + 1, inQuotes, <<>>,
                                 Append(values, Trim(currentField)))
            ELSE SimpleParseFrom(line, j + 1, inQuotes,
                                 Append(currentField, char), values)

SimpleParseLine(line) == SimpleParseFrom(line, 1, FALSE, <<>>, <<>>)

\* The row parser of getTicket and getTracInfo: a backslash copies the next
\* character, a doubled quote inside a quoted field is one quote, any other
\* quote toggles the quoted state.
RECURSIVE BetterParseFrom(_, _, _, _, _, _)
BetterParseFrom(line, j, inQuotes, escapeNext, currentField, values) ==
    IF j > Len(line) THEN Append(values, Trim(currentField))
    ELSE LET char == line[j]
         IN IF escapeNext
            THEN BetterParseFrom(line, j + 1, inQuotes, FALSE,
                                 Append(currentField, char), values)
            ELSE IF char = "\\"
            THEN BetterParseFrom(line, j + 1, inQuotes, TRUE, currentField, values)
            ELSE IF char = "\""
            THEN IF inQuotes
                 THEN IF j + 1 <= Len(line) /\ line[j + 1] = "\""
                      THEN BetterParseFrom(line, j + 2, inQuotes, FALSE,
                                           Append(currentField, "\""), values)
                      ELSE BetterParseFrom(line, j + 1, FALSE, FALSE,
                                           currentField, values)
                 ELSE BetterParseFrom(line, j + 1, TRUE, FALSE, currentField, values)
            ELSE IF char = "," /\ ~inQuotes
            THEN BetterParseFrom(line, j + 1, inQuotes, FALSE, <<>>,
                                 Append(values, Trim(currentField)))
            ELSE BetterParseFrom(line, j + 1, inQuotes, FALSE,
                                 Append(currentField, char), values)

BetterParseLine(line) == BetterParseFrom(line, 1, FALSE, FALSE, <<>>, <<>>)

\* values[k] of a JavaScript array (k from 0): undefined past the end, and
\* `values[k] || dflt` takes dflt for undefined and for the empty string.
FieldOr(values, k, dflt) ==
    IF k + 1 <= Len(values) /\ values[k + 1] # <<>> THEN values[k + 1] ELSE dflt

\* values.length >= 2 && values[0] && !isNaN(parseInt(values[0]))
IsTicketRow(values) ==
    /\ Len(values) >= 2
    /\ values[1] # <<>>
    /\ ~ParseIntIsNaN(values[1])

\* lines[0].split(',').map(h => h.replace(/"/g, '').trim())
ParseHeaders(line) ==
    LET cols == Split(line, ",")
    IN [i \in 1..Len(cols) |-> Trim(DropQuotes(cols[i]))]

\* headers.indexOf(name): the first position (from 0), -1 when absent
IndexOf(headers, name) ==
    IF \E i \in 1..Len(headers) : headers[i] = name
    THEN (CHOOSE i \in 1..Len(headers) :
              /\ headers[i] = name
              /\ \A k \in 1..(i - 1) : headers[k] # name) - 1
    ELSE -1

\* ----------------------------------------------------------- upstream data

\* The header of the tracker's CSV export (index.ts:593)
HeaderLine ==
    <<"id", ",", "Summary", ",", "Owner", ",", "Type", ",", "Status", ",",
      "Priority", ",", "Milestone">>

\* 1,Fix editor,alice,defect,new,high,6.0
Row1 ==
    <<"1", ",", "Fix", " ", "editor", ",", "alice", ",", "defect", ",", "new",
      ",", "high", ",", "6.0">>

\* 2,"media, upload",bob,enhancement,closed,low,
Row2 ==
    <<"2", ",", "\"", "media", ",", " ", "upload", "\"", ",", "bob", ",",
      "enhancement", ",", "closed", ",", "low", ",">>

\* 12,,,,,,
Row3 == <<"1", "2", ",", ",", ",", ",", ",", ",">>

\* a line that is no ticket row: see editor notes,n/a
Row4 == <<"see", " ", "editor", " ", "notes", ",", "n/a">>

\* 1,media,carol,task,reopened,low,6.1  (a second row with id 1)
Row5 ==
    <<"1", ",", "media", ",", "carol", ",", "task", ",", "reopened", ",", "low",
      ",", "6.1">>

RowPool == {Row1, Row2, Row3, Row4, Row5}

RowSeqs == UNION {[1..n -> RowPool] : n \in 0..MaxRows}

\* A CSV export: the header and the rows, either separated by line feeds, or
\* as Trac sends it: behind a byte-order mark, every line ended by CR LF.
RECURSIVE Concat(_)
Concat(pieces) ==
    IF pieces = <<>> THEN <<>> ELSE Head(pieces) \o Concat(Tail(pieces))

CsvBody(rows, enc) ==
    LET lines == <<HeaderLine>> \o rows
    IN IF enc = "lf"
       THEN Join(lines, "\n")
       ELSE <<BOM>> \o Concat([i \in 1..Len(lines) |-> lines[i] \o <<"\r", "\n">>])

Encodings == {"lf", "bomcrlf"}

\* What the tracker answers when it refuses a query: an HTML page
MarkupPage == <<"<html>", "<body>", "403 Forbidden", "</body>", "</html>">>

MarkupLines == <<"<!DOCTYPE html>", "\n", "<html>", "\n", "</html>">>

PlainForbidden == <<"403 Forbidden">>

MarkupBodies == {MarkupPage, MarkupLines, PlainForbidden}

CsvBodies ==
    {CsvBody(rows, enc) : rows \in RowSeqs, enc \in Encodings}
        \cup {<<>>} \cup MarkupBodies

\* What one upstream request can end in: the network call throws, or an HTTP
\* response arrives, OK or not, with a body.
NetworkError == [kind |-> "throw", message |-> <<"fetch failed">>]

HttpResponse(ok, status, statusText, body) ==
    [kind |-> "http", ok |-> ok, status |-> status, statusText |-> statusText,
     body |-> body]

Forbidden403 == HttpResponse(FALSE, <<"403">>, <<"Forbidden">>, MarkupPage)

ServerError500 == HttpResponse(FALSE, <<"500">>, <<"Internal Server Error">>, <<>>)

Ok200(body) == HttpResponse(TRUE, <<"200">>, <<"OK">>, body)

CsvOutcomes ==
    {NetworkError, Forbidden403, ServerError500} \cup {Ok200(b) : b \in CsvBodies}

\* -------------------------------------------------------------------- state

VARIABLES
    rev,          \* which revision of index.ts runs: "csv" or "xmlrpc"
    pc,           \* where handleMcpRequest stands: "idle", an await, "done"
    request,      \* the JSON-RPC request being handled
    locals,       \* the handler's local variables that live across an await
    log,          \* the upstream traffic of this call, in order
    response,     \* what handleMcpRequest returned, or that it threw
    ticketCache,  \* const ticketCache = new Map<number, any>()
    parked        \* a second call of handleMcpRequest, suspended at its await

vars == <<rev, pc, request, locals, log, response, ticketCache, parked>>

Revisions == {"csv", "xmlrpc"}

RequestIds == {1, 2}

NoRequest == [method |-> "none"]

NoLocals == [tool |-> "none"]

Pending == [pending |-> TRUE]

\* The value of a key that holds undefined
Undefined == <<"undefined">>

\* args.name with the destructuring default
Arg(args, name, dflt) == IF name \in DOMAIN args THEN args[name] ELSE dflt

HasArg(args, name) == name \in DOMAIN args

\* error instanceof Error ? error.message : 'Unknown error'
HttpErrorMessage(o) == <<"HTTP ">> \o o.status \o <<": ">> \o o.statusText

\* JSON.stringify(result, null, 2): a key whose value is undefined is left out
Stringify(result) ==
    IF "note" \in DOMAIN result /\ result.note = Undefined
    THEN [k \in (DOMAIN result) \ {"note"} |-> result[k]]
    ELSE result

\* The envelope every tools/call case ends in after its break (index.ts:977)
ResultEnvelope(id, result) ==
    [jsonrpc |-> "2.0", id |-> id,
     result |-> [content |-> <<[type |-> "text", text |-> Stringify(result)]>>]]

\* The envelope of the outer catch (index.ts:987) and of the default case
ErrorEnvelope(id, code, message) ==
    [jsonrpc |-> "2.0", id |-> id, error |-> [code |-> code, message |-> message]]

\* handleMcpRequest rejects: the exception leaves the function
Thrown(message) == [thrown |-> message]

\* One upstream request, and what the handler did with its response
FetchEvent(which, url) == [ev |-> "fetch", which |-> which, url |-> url]

TextEvent(which) == [ev |-> "text", which |-> which]

ParseEvent(which) == [ev |-> "parse", which |-> which]

\* What came back for a request: `await fetch(...)` resolves or rejects
AnswerEvent(which, o) == [ev |-> "answer", which |-> which, outcome |-> o]

\* A call of handleMcpRequest that has not begun: its own request, locals,
\* traffic and return value are all it has besides the module-level constants
NotStarted ==
    [pc |-> "idle", request |-> NoRequest, locals |-> NoLocals, log |-> <<>>,
     response |-> Pending]

Init ==
    /\ rev \in Revisions
    /\ pc = "idle"
    /\ request = NoRequest
    /\ locals = NoLocals
    /\ log = <<>>
    /\ response = Pending
    /\ ticketCache = {}
    /\ parked = NotStarted

\* ------------------------------------------ searchTickets, current revision

Queries == {<<"EDITOR">>, <<"media">>, <<"~", "media">>}

LimitValues == {0, 1, 2, 34, 500}

SearchArgs ==
    {[query |-> q] : q \in Queries}
        \cup {[query |-> q, limit |-> l] : q \in Queries, l \in LimitValues}
        \cup {[query |-> <<"media">>, limit |-> 2, status |-> <<"new">>],
              [query |-> <<"media">>, component |-> <<"Editor">>]}

\* A markup check that looks for the document tag alone
IsHtmlTagOnly(body) == Includes(body, <<"<html>">>)

\* csvData.includes('<html>') || csvData.includes('403 Forbidden')
IsMarkup(body) == Includes(body, <<"<html>">>) \/ Includes(body, <<"403 Forbidden">>)

\* The query URL of the primary request (index.ts:300-322)
SearchUrl(args) ==
    LET query == args.query
        limit == Arg(args, "limit", SearchDefaultLimit)
        keys == {"path", "format", "max", "summary"}
                    \cup (IF HasArg(args, "status") THEN {"status"} ELSE {})
                    \cup (IF HasArg(args, "component") THEN {"component"} ELSE {})
    IN [k \in keys |->
            CASE k = "path" -> <<"/query">>
              [] k = "format" -> <<"csv">>
              [] k = "max" -> NumToStr(Min(limit, SearchMaxCap))
              [] k = "summary" ->
                    IF Includes(query, <<"=">>) \/ Includes(query, <<"~">>)
                    THEN query
                    ELSE <<"~">> \o query
              [] k = "status" -> args.status
              [] k = "component" -> args.component]

\* The query URL of the fallback request (index.ts:342-344)
FallbackUrl(args) ==
    LET limit == Arg(args, "limit", SearchDefaultLimit)
    IN [path |-> <<"/query">>, format |-> <<"csv">>,
        max |-> NumToStr(Min(limit * FallbackFactor, FallbackMaxCap))]

\* The ticket record of the primary path (index.ts:477-489)
PrimaryTicket(values) ==
    [id |-> ParseInt(values[1]),
     title |-> FieldOr(values, 1, <<>>),
     text |-> <<"#">> \o values[1] \o <<": ">> \o FieldOr(values, 1, <<"No summary">>)
                \o <<"\nStatus: ">> \o FieldOr(values, 4, <<"unknown">>)
                \o <<"\nOwner: ">> \o FieldOr(values, 2, <<"unassigned">>)
                \o <<"\nType: ">> \o FieldOr(values, 3, <<"unknown">>)
                \o <<"\nPriority: ">> \o FieldOr(values, 5, <<"unknown">>)
                \o <<"\nMilestone: ">> \o FieldOr(values, 6, <<"none">>),
     url |-> <<"https://core.trac.wordpress.org/ticket/">> \o values[1],
     metadata |-> [status |-> FieldOr(values, 4, <<"unknown">>),
                   owner |-> FieldOr(values, 2, <<"unassigned">>),
                   type |-> FieldOr(values, 3, <<"unknown">>),
                   priority |-> FieldOr(values, 5, <<"unknown">>),
                   milestone |-> FieldOr(values, 6, <<"none">>)]]

\* The ticket record of the fallback path (index.ts:414-426)
FallbackTicket(values) ==
    [id |-> ParseInt(values[1]),
     title |-> FieldOr(values, 1, <<>>),
     text |-> <<"#">> \o values[1] \o <<": ">> \o FieldOr(values, 1, <<"No summary">>)
                \o <<"\nStatus: ">> \o FieldOr(values, 2, <<"unknown">>)
                \o <<"\nOwner: ">> \o FieldOr(values, 3, <<"unassigned">>)
                \o <<"\nType: ">> \o FieldOr(values, 4, <<"unknown">>)
                \o <<"\nPriority: ">> \o FieldOr(values, 5, <<"unknown">>)
                \o <<"\nMilestone: ">> \o FieldOr(values, 6, <<"none">>),
     url |-> <<"https://core.trac.wordpress.org/ticket/">> \o values[1],
     metadata |-> [status |-> FieldOr(values, 2, <<"unknown">>),
                   owner |-> FieldOr(values, 3, <<"unassigned">>),
                   type |-> FieldOr(values, 4, <<"unknown">>),
                   priority |-> FieldOr(values, 5, <<"unknown">>),
                   milestone |-> FieldOr(values, 6, <<"none">>)]]

\* The row loop of the primary path (index.ts:452-493), from line i (from 1)
RECURSIVE PrimaryTickets(_, _, _)
PrimaryTickets(lines, i, tickets) ==
    IF i > Len(lines) THEN tickets
    ELSE LET line == Trim(lines[i])
             values == SimpleParseLine(line)
         IN IF line = <<>> THEN PrimaryTickets(lines, i + 1, tickets)
            ELSE IF IsTicketRow(values)
            THEN PrimaryTickets(lines, i + 1, Append(tickets, PrimaryTicket(values)))
            ELSE PrimaryTickets(lines, i + 1, tickets)

\* The row loop of the fallback path (index.ts:389-430)
RECURSIVE FallbackTickets(_, _, _)
FallbackTickets(lines, i, tickets) ==
    IF i > Len(lines) THEN tickets
    ELSE LET line == Trim(lines[i])
             values == SimpleParseLine(line)
         IN IF line = <<>> THEN FallbackTickets(lines, i + 1, tickets)
            ELSE IF IsTicketRow(values)
            THEN FallbackTickets(lines, i + 1, Append(tickets, FallbackTicket(values)))
            ELSE FallbackTickets(lines, i + 1, tickets)

\* The client-side filter (index.ts:367-373): a line is kept when its raw
\* text holds the query, case ignored; the loop breaks once more lines than
\* limit are held, the header counted.
RECURSIVE FilterFrom(_, _, _, _, _)
FilterFrom(allLines, i, query, limit, filteredLines) ==
    IF i > Len(allLines) THEN filteredLines
    ELSE IF Includes(ToLowerCase(allLines[i]), ToLowerCase(query))
    THEN LET kept == Append(filteredLines, allLines[i])
         IN IF Len(kept) > limit THEN kept
            ELSE FilterFrom(allLines, i + 1, query, limit, kept)
    ELSE FilterFrom(allLines, i + 1, query, limit, filteredLines)

FilterLines(allLines, query, limit) ==
    FilterFrom(allLines, 2, query, limit, <<allLines[1]>>)

\* The failure record of searchTickets (index.ts:503-507)
SearchFailure(args, message) ==
    [results |-> <<>>, query |-> args.query, error |-> message]

\* A result record that carries the note whichever path was taken
SearchSuccessNoted(args, tickets, wasFiltered) ==
    [results |-> tickets, query |-> args.query, totalFound |-> Len(tickets),
     returned |-> Len(tickets),
     note |-> <<"Results filtered client-side due to search API limitations">>]

\* The result record of searchTickets (index.ts:495-501 and 432-438)
SearchSuccess(args, tickets, wasFiltered) ==
    [results |-> tickets, query |-> args.query, totalFound |-> Len(tickets),
     returned |-> Len(tickets),
     note |-> IF wasFiltered
              THEN <<"Results filtered client-side due to search API limitations">>
              ELSE Undefined]

\* What searchTickets makes of a primary body that is no markup
\* (index.ts:441-501)
SearchPrimaryResult(args, csvData) ==
    LET lines == Split(Trim(csvData), "\n")
    IN IF Len(lines) < 2
       THEN SearchFailure(args, <<"No tickets found or invalid CSV response">>)
       ELSE SearchSuccess(args, PrimaryTickets(lines, 2, <<>>), FALSE)

\* The lines the fallback path parses (index.ts:364-381)
FallbackLines(args, fallbackData) ==
    LET allLines == Split(Trim(fallbackData), "\n")
        filteredLines ==
            FilterLines(allLines, args.query, Arg(args, "limit", SearchDefaultLimit))
    IN Split(Trim(Join(filteredLines, "\n")), "\n")

\* The traffic so far, with the answer that has just come
Heard(which, o) == Append(log, AnswerEvent(which, o))

\* The answer to one of several requests in flight at once, named by the
\* ticket it was sent for
HeardFor(which, ticketId, o) ==
    Append(log, [ev |-> "answer", which |-> which, ticketId |-> ticketId,
                 outcome |-> o])

\* The call reaches its end: handleMcpRequest returns `value`
Finish(value) ==
    /\ pc' = "done"
    /\ response' = value
    /\ locals' = NoLocals

\* tools/call searchTickets, up to the first await (index.ts:295-331)
SearchTicketsCall(id, args) ==
    /\ pc = "idle"
    /\ rev = "csv"
    /\ request' = [method |-> "tools/call", id |-> id,
                   params |-> [name |-> "searchTickets", arguments |-> args]]
    /\ locals' = [tool |-> "searchTickets"]
    /\ log' = <<FetchEvent("primary", SearchUrl(args))>>
    /\ pc' = "searchPrimary"
    /\ UNCHANGED <<rev, parked, response, ticketCache>>

\* The primary response handled without a look at its status: whatever body
\* came is read
SearchTicketsPrimaryUnchecked(o) ==
    /\ pc = "searchPrimary"
    /\ LET id == request.id
           args == request.params.arguments
       IN IF o.kind = "throw"
          THEN /\ Finish(ResultEnvelope(id, SearchFailure(args, o.message)))
               /\ log' = Heard("primary", o)
          ELSE IF IsMarkup(o.body)
          THEN /\ pc' = "searchFallback"
               /\ log' = Heard("primary", o) \o <<TextEvent("primary"),
                                  FetchEvent("fallback", FallbackUrl(args))>>
               /\ UNCHANGED <<response, locals>>
          ELSE /\ Finish(ResultEnvelope(id, SearchPrimaryResult(args, o.body)))
               /\ log' = Heard("primary", o)
                             \o <<TextEvent("primary"), ParseEvent("primary")>>
    /\ UNCHANGED <<rev, parked, request, ticketCache>>

\* The primary response arrives (index.ts:333-361 and 441-509)
SearchTicketsPrimary(o) ==
    /\ pc = "searchPrimary"
    /\ LET id == request.id
           args == request.params.arguments
       IN IF o.kind = "throw"
          THEN /\ Finish(ResultEnvelope(id, SearchFailure(args, o.message)))
               /\ log' = Heard("primary", o)
          ELSE IF ~o.ok
          THEN /\ Finish(ResultEnvelope(id, SearchFailure(args, HttpErrorMessage(o))))
               /\ log' = Heard("primary", o)
          ELSE IF IsMarkup(o.body)
          THEN /\ pc' = "searchFallback"
               /\ log' = Heard("primary", o) \o <<TextEvent("primary"),
                                  FetchEvent("fallback", FallbackUrl(args))>>
               /\ UNCHANGED <<response, locals>>
          ELSE /\ Finish(ResultEnvelope(id, SearchPrimaryResult(args, o.body)))
               /\ log' = Heard("primary", o)
                             \o <<TextEvent("primary"), ParseEvent("primary")>>
    /\ UNCHANGED <<rev, parked, request, ticketCache>>

\* The fallback response arrives (index.ts:354-439 and 502-509)
SearchTicketsFallback(o) ==
    /\ pc = "searchFallback"
    /\ LET id == request.id
           args == request.params.arguments
       IN IF o.kind = "throw"
          THEN /\ Finish(ResultEnvelope(id, SearchFailure(args, o.message)))
               /\ log' = Heard("fallback", o)
          ELSE IF ~o.ok
          THEN /\ Finish(ResultEnvelope(id, SearchFailure(args,
                        <<"Fallback query failed: ">> \o o.status \o <<" ">>
                            \o o.statusText)))
               /\ log' = Heard("fallback", o)
          ELSE IF IsMarkup(o.body)
          THEN /\ Finish(ResultEnvelope(id, SearchFailure(args,
                        <<"Access denied",
                          " - both search and fallback queries returned HTML">>)))
               /\ log' = Append(Heard("fallback", o), TextEvent("fallback"))
          ELSE LET lines == FallbackLines(args, o.body)
               IN /\ log' = Heard("fallback", o)
                                \o <<TextEvent("fallback"), ParseEvent("fallback")>>
                  /\ IF Len(lines) < 2
                     THEN Finish(ResultEnvelope(id, SearchFailure(args,
                              <<"No tickets found matching search criteria">>)))
                     ELSE Finish(SearchSuccess(args, FallbackTickets(lines, 2, <<>>),
                                               TRUE))
    /\ UNCHANGED <<rev, parked, request, ticketCache>>

\* ---------------------------------------------- getTicket, current revision

TicketIds == {1, 3, 12}

GetTicketArgs ==
    {[id |-> i] : i \in TicketIds}
        \cup {[id |-> i, includeComments |-> b] : i \in TicketIds, b \in BOOLEAN}

\* The query URL of getTicket (index.ts:517-520)
TicketUrl(args) ==
    [path |-> <<"/query">>, format |-> <<"csv">>, id |-> NumToStr(args.id),
     max |-> <<"1">>]

\* The failure record of getTicket (index.ts:645-651)
TicketFailure(id, message) ==
    [id |-> id,
     title |-> <<"Error loading ", "ticket ">> \o NumToStr(id),
     text |-> <<"Error: ">> \o message,
     url |-> <<"https://core.trac.wordpress.org/ticket/">> \o NumToStr(id),
     metadata |-> [error |-> TRUE]]

TicketNotFound(id) == <<"Ticket ">> \o NumToStr(id) \o <<" not found">>

\* The ticket built from the row found (index.ts:594-611)
TicketOfRow(values) ==
    [id |-> ParseInt(values[1]),
     summary |-> FieldOr(values, 1, <<>>),
     owner |-> FieldOr(values, 2, <<>>),
     type |-> FieldOr(values, 3, <<>>),
     status |-> FieldOr(values, 4, <<>>),
     priority |-> FieldOr(values, 5, <<>>),
     milestone |-> FieldOr(values, 6, <<>>),
     reporter |-> <<>>,
     description |-> <<"Full description not available in search query. ",
                       "Visit the ticket URL for complete details.">>,
     component |-> <<>>, version |-> <<>>, severity |-> <<>>,
     resolution |-> <<>>, keywords |-> <<>>, cc |-> <<>>, focuses |-> <<>>]

\* The synthetic comment attached whether or not comments are wanted
SyntheticCommentsAlways(includeComments) ==
    <<[author |-> <<"system">>, timestamp |-> <<"now">>,
       comment |-> <<"Comment history not available through CSV API. ",
                     "Visit the ticket URL for full discussion.">>]>>

\* The synthetic comment (index.ts:614-622); the clock's reading is "now"
SyntheticComments(includeComments) ==
    IF includeComments
    THEN <<[author |-> <<"system">>, timestamp |-> <<"now">>,
            comment |-> <<"Comment history not available through CSV API. ",
                          "Visit the ticket URL for full discussion.">>]>>
    ELSE <<>>

\* The result record of getTicket (index.ts:624-634)
TicketSuccess(id, values, includeComments) ==
    LET ticket == TicketOfRow(values)
        comments == SyntheticComments(includeComments)
    IN [id |-> id,
        title |-> <<"#">> \o NumToStr(id) \o <<": ">> \o ticket.summary,
        text |-> <<"Ticket #">> \o NumToStr(id) \o <<": ">> \o ticket.summary
                   \o <<"\n\nStatus: ">> \o ticket.status
                   \o <<"\nComponent: ">> \o ticket.component
                   \o <<"\nPriority: ">> \o ticket.priority
                   \o <<"\nType: ">> \o ticket.type
                   \o <<"\nReporter: ">> \o ticket.reporter
                   \o <<"\nOwner: ">> \o ticket.owner
                   \o <<"\nMilestone: ">> \o ticket.milestone
                   \o <<"\nVersion: ">> \o ticket.version
                   \o <<"\nKeywords: ">> \o ticket.keywords
                   \o <<"\n\nDescription:\n">> \o ticket.description
                   \o <<"\n\nFor full discussion and comments, visit: ",
                        "https://core.trac.wordpress.org/ticket/">> \o NumToStr(id),
        url |-> <<"https://core.trac.wordpress.org/ticket/">> \o NumToStr(id),
        metadata |-> [ticket |-> ticket, comments |-> comments,
                      totalComments |-> Len(comments)]]

\* A row scan that takes the first ticket row, whatever its id
RECURSIVE TicketScanFirstRow(_, _, _, _)
TicketScanFirstRow(lines, i, id, includeComments) ==
    IF i > Len(lines)
    THEN [id |-> id,
          title |-> <<"Error loading ", "ticket ">> \o NumToStr(id),
          text |-> <<"Error: ", "Ticket ">> \o NumToStr(id) \o <<" not found">>,
          url |-> <<"https://core.trac.wordpress.org/ticket/">> \o NumToStr(id),
          metadata |-> [error |-> TRUE]]
    ELSE LET line == Trim(lines[i])
             values == BetterParseLine(line)
         IN IF line # <<>> /\ IsTicketRow(values)
            THEN TicketSuccess(id, values, includeComments)
            ELSE TicketScanFirstRow(lines, i + 1, id, includeComments)

\* The row scan (index.ts:544-643): the first ticket row whose id is the
\* requested id makes the result; without one the ticket is not found.
RECURSIVE TicketScan(_, _, _, _)
TicketScan(lines, i, id, includeComments) ==
    IF i > Len(lines) THEN TicketFailure(id, TicketNotFound(id))
    ELSE LET line == Trim(lines[i])
             values == BetterParseLine(line)
         IN IF line = <<>> THEN TicketScan(lines, i + 1, id, includeComments)
            ELSE IF IsTicketRow(values) /\ ParseInt(values[1]) = id
            THEN TicketSuccess(id, values, includeComments)
            ELSE TicketScan(lines, i + 1, id, includeComments)

\* What getTicket makes of the body of an OK response (index.ts:533-643)
TicketResult(args, csvData) ==
    LET lines == SplitLines(Trim(StripBOM(csvData)))
    IN IF Len(lines) < 2
       THEN TicketFailure(args.id, TicketNotFound(args.id))
       ELSE TicketScan(lines, 2, args.id, Arg(args, "includeComments", TRUE))

\* tools/call getTicket, up to the await (index.ts:512-527)
GetTicketCall(id, args) ==
    /\ pc = "idle"
    /\ rev = "csv"
    /\ request' = [method |-> "tools/call", id |-> id,
                   params |-> [name |-> "getTicket", arguments |-> args]]
    /\ locals' = [tool |-> "getTicket"]
    /\ log' = <<FetchEvent("primary", TicketUrl(args))>>
    /\ pc' = "ticketPrimary"
    /\ UNCHANGED <<rev, parked, response, ticketCache>>

\* The response arrives (index.ts:529-654)
GetTicketPrimary(o) ==
    /\ pc = "ticketPrimary"
    /\ LET id == request.id
           args == request.params.arguments
       IN IF o.kind = "throw"
          THEN /\ Finish(ResultEnvelope(id, TicketFailure(args.id, o.message)))
               /\ log' = Heard("primary", o)
          ELSE IF ~o.ok
          THEN /\ Finish(ResultEnvelope(id,
                        TicketFailure(args.id, HttpErrorMessage(o))))
               /\ log' = Heard("primary", o)
          ELSE /\ Finish(ResultEnvelope(id, TicketResult(args, o.body)))
               /\ log' = Heard("primary", o)
                             \o <<TextEvent("primary"), ParseEvent("primary")>>
    /\ UNCHANGED <<rev, parked, request, ticketCache>>

\* ------------------------------------------- getChangeset, current revision

\* A rendered changeset page is modelled by what the patterns of
\* index.ts:676-704 capture in it: the author, the date, the message (with
\* their inner tags) and the entries of the file list; an empty capture
\* stands for a page none of the field's patterns matches.
Tags == {"<a>", "</a>", "<p>", "</p>", "<span>", "</span>"}

FullPage ==
    [author |-> <<"<a>", "alice", "</a>">>,
     date |-> <<" ", "2024-01-01", " ">>,
     message |-> <<"Fix", " ", "<span>", "editor", "</span>">>,
     files |-> << <<"<a>", "trunk/a.php", "</a>">>,
                  <<"<a>", "trunk/b.php", " ", "(", "modified", ")", "</a>">>,
                  <<"<a>", "modified", "</a>">>,
                  <<"<a>", "</a>">> >>]

BlankPage == [author |-> <<>>, date |-> <<>>, message |-> <<>>, files |-> <<>>]

Pages == {FullPage, BlankPage}

NotFound404 == HttpResponse(FALSE, <<"404">>, <<"Not Found">>, <<>>)

PageOutcomes == {NetworkError, NotFound404} \cup {Ok200(p) : p \in Pages}

\* A diff is modelled by its length: `length` characters of the upstream
\* diff, from its first one, and whether the truncation marker follows.
DiffLengths == {0, 3, 2000, 2001, 10001}

DiffOutcomes ==
    {NetworkError, NotFound404}
        \cup {Ok200([length |-> n, marker |-> FALSE]) : n \in DiffLengths}

DiffLimitValues == {-1, 0, 2, 20000}

Revision == 58504

ChangesetArgs ==
    {[revision |-> Revision], [revision |-> Revision, includeDiff |-> FALSE],
     [revision |-> Revision, includeDiff |-> TRUE]}
        \cup {[revision |-> Revision, diffLimit |-> d] : d \in DiffLimitValues}

\* text.replace(/<[^>]*>/g, '')
RECURSIVE StripTags(_)
StripTags(s) ==
    IF s = <<>> THEN <<>>
    ELSE IF Head(s) \in Tags THEN StripTags(Tail(s))
    ELSE <<Head(s)>> \o StripTags(Tail(s))

\* match?.[1] ? match[1].replace(/<[^>]*>/g, '').trim() : ''
Extracted(capture) == Trim(StripTags(capture))

\* The filter of the file list (index.ts:706-709)
IsFilePath(path) ==
    /\ path # <<>>
    /\ ~Includes(path, <<"(">>)
    /\ ~Includes(path, <<"modified">>)
    /\ ~Includes(path, <<"added">>)
    /\ ~Includes(path, <<"deleted">>)

RECURSIVE FilterPaths(_)
FilterPaths(paths) ==
    IF paths = <<>> THEN <<>>
    ELSE IF IsFilePath(Head(paths)) THEN <<Head(paths)>> \o FilterPaths(Tail(paths))
    ELSE FilterPaths(Tail(paths))

\* Array.prototype.slice(0, n): a negative n counts from the end
Slice(seq, n) ==
    LET end == IF n < 0 THEN Len(seq) + n ELSE Min(Len(seq), n)
    IN SubSeq(seq, 1, IF end < 0 THEN 0 ELSE end)

\* .filter(path => path) of the XML-RPC revision (index.ts:1817-1819)
RECURSIVE NonEmptyPaths(_)
NonEmptyPaths(paths) ==
    IF paths = <<>> THEN <<>>
    ELSE IF Head(paths) # <<>> THEN <<Head(paths)>> \o NonEmptyPaths(Tail(paths))
    ELSE NonEmptyPaths(Tail(paths))

ChangesetFiles(page) ==
    LET paths == [i \in 1..Len(page.files) |-> Extracted(page.files[i])]
    IN IF rev = "csv"
       THEN Slice(FilterPaths(paths), FilesCap)
       ELSE NonEmptyPaths(paths)

\* The changeset read from the page (index.ts:687-711 and 1802-1821), its
\* diff still ''
ChangesetOfPage(revision, page) ==
    [revision |-> revision,
     author |-> Extracted(page.author),
     date |-> Extracted(page.date),
     message |-> Extracted(page.message),
     files |-> ChangesetFiles(page),
     diff |-> [length |-> 0, marker |-> FALSE]]

\* The truncation of the diff (index.ts:725-728); substring(0, n) takes no
\* character for a negative n
\* A cut that leaves the truncation marker out
TruncateSilently(diffText, diffLimit) ==
    IF diffText.length > Min(diffLimit, DiffHardCap)
    THEN [length |-> IF Min(diffLimit, DiffHardCap) < 0 THEN 0
                     ELSE Min(diffLimit, DiffHardCap),
          marker |-> FALSE]
    ELSE diffText

\* A cut at the caller's diffLimit alone, without the hard cap
TruncateAtDiffLimit(diffText, diffLimit) ==
    IF diffText.length > diffLimit
    THEN [length |-> IF diffLimit < 0 THEN 0 ELSE diffLimit, marker |-> TRUE]
    ELSE diffText

TruncateDiff(diffText, diffLimit) ==
    LET maxDiffLength == Min(diffLimit, DiffHardCap)
    IN IF diffText.length > maxDiffLength
       THEN [length |-> IF maxDiffLength < 0 THEN 0 ELSE maxDiffLength,
             marker |-> TRUE]
       ELSE diffText

\* The characters of a diff in a rendered text
DiffRender(diff) ==
    (IF diff.length > 0 THEN <<"diff[0..">> \o NumToStr(diff.length) \o <<")">>
     ELSE <<>>)
        \o (IF diff.marker THEN <<"\n... [diff truncated] ...">> ELSE <<>>)

ChangesetPath(revision) ==
    <<"https://core.trac.wordpress.org/changeset/">> \o NumToStr(revision)

\* The result record of getChangeset (index.ts:736-745)
ChangesetSuccess(changeset) ==
    LET revision == changeset.revision
    IN [id |-> NumToStr(revision),
        title |-> <<"r">> \o NumToStr(revision) \o <<": ">> \o changeset.message,
        text |-> <<"Changeset r">> \o NumToStr(revision)
                   \o <<"\nAuthor: ">> \o changeset.author
                   \o <<"\nDate: ">> \o changeset.date
                   \o <<"\n\nMessage:\n">> \o changeset.message
                   \o <<"\n\nFiles changed: ">> \o NumToStr(Len(changeset.files))
                   \o <<"\n">> \o Join(Slice(changeset.files, 10), "\n")
                   \o (IF Len(changeset.files) > 10 THEN <<"\n...">> ELSE <<>>)
                   \o <<"\n\n">>
                   \o (IF DiffRender(changeset.diff) # <<>>
                       THEN <<"Diff:\n">> \o DiffRender(changeset.diff)
                       ELSE <<"No diff available">>),
        url |-> ChangesetPath(revision),
        metadata |-> [changeset |-> changeset,
                      totalFiles |-> Len(changeset.files)]]

\* The failure record of getChangeset (index.ts:747-753)
ChangesetFailure(revision, message) ==
    [id |-> NumToStr(revision),
     title |-> <<"Error loading ", "changeset ">> \o NumToStr(revision),
     text |-> <<"Error: ">> \o message,
     url |-> ChangesetPath(revision),
     metadata |-> [error |-> TRUE]]

\* tools/call getChangeset, up to the first await (index.ts:656-667)
GetChangesetCall(id, args) ==
    /\ pc = "idle"
    /\ request' = [method |-> "tools/call", id |-> id,
                   params |-> [name |-> "getChangeset", arguments |-> args]]
    /\ locals' = [tool |-> "getChangeset"]
    /\ log' = <<FetchEvent("primary", [path |-> ChangesetPath(args.revision)])>>
    /\ pc' = "changesetPage"
    /\ UNCHANGED <<rev, parked, response, ticketCache>>

\* The page arrives (index.ts:669-721): the changeset is read from it, and
\* the diff is asked for if it is wanted
GetChangesetPage(o) ==
    /\ pc = "changesetPage"
    /\ LET id == request.id
           args == request.params.arguments
       IN IF o.kind = "throw"
          THEN /\ Finish(ResultEnvelope(id, ChangesetFailure(args.revision, o.message)))
               /\ log' = Heard("primary", o)
          ELSE IF ~o.ok
          THEN /\ Finish(ResultEnvelope(id, ChangesetFailure(args.revision,
                        <<"Changeset ">> \o NumToStr(args.revision)
                            \o <<" not found">>)))
               /\ log' = Heard("primary", o)
          ELSE LET changeset == ChangesetOfPage(args.revision, o.body)
               IN IF Arg(args, "includeDiff", TRUE)
                  THEN /\ pc' = "changesetDiff"
                       /\ locals' = [tool |-> "getChangeset", changeset |-> changeset]
                       /\ log' = Heard("primary", o) \o <<TextEvent("primary"),
                                          FetchEvent("diff",
                                              [path |-> ChangesetPath(args.revision),
                                               format |-> <<"diff">>])>>
                       /\ UNCHANGED response
                  ELSE /\ Finish(ResultEnvelope(id, ChangesetSuccess(changeset)))
                       /\ log' = Append(Heard("primary", o), TextEvent("primary"))
    /\ UNCHANGED <<rev, parked, request, ticketCache>>

\* The diff arrives (index.ts:723-756); a failure to load it is only warned of
GetChangesetDiff(o) ==
    /\ pc = "changesetDiff"
    /\ LET id == request.id
           args == request.params.arguments
           changeset == locals.changeset
           diffLimit == Arg(args, "diffLimit", DiffDefaultLimit)
       IN IF o.kind = "http" /\ o.ok
          THEN /\ Finish(ResultEnvelope(id, ChangesetSuccess(
                        [changeset EXCEPT !.diff = TruncateDiff(o.body, diffLimit)])))
               /\ log' = Append(Heard("diff", o), TextEvent("diff"))
          ELSE /\ Finish(ResultEnvelope(id, ChangesetSuccess(changeset)))
               /\ log' = Heard("diff", o)
    /\ UNCHANGED <<rev, parked, request, ticketCache>>

\* -------------------------------------------------------------- getTimeline

\* A feed item is modelled by what the patterns of index.ts:783-795 capture
\* in it: a title and a description inside CDATA ("cdata"), as plain text
\* ("plain") or absent ("none"); a link, a date and a creator, there or not.
Capture(kind, text) == [kind |-> kind, text |-> text]

ItemFull ==
    [title |-> Capture("cdata", <<" ", "Ticket", " ", "created", " ">>),
     link |-> Capture("plain", <<"https://core.trac.wordpress.org/ticket/1">>),
     description |-> Capture("cdata", <<"<p>", "new", " ", "ticket", "</p>">>),
     pubDate |-> Capture("plain", <<"Mon, 01 Jan 2024">>),
     creator |-> Capture("plain", <<"alice">>)]

ItemPlain ==
    [title |-> Capture("plain", <<"Changeset">>),
     link |-> Capture("plain", <<"https://core.trac.wordpress.org/changeset/2">>),
     description |-> Capture("plain", <<"commit">>),
     pubDate |-> Capture("none", <<>>),
     creator |-> Capture("none", <<>>)]

ItemNoLink ==
    [title |-> Capture("cdata", <<"Wiki", " ", "edited">>),
     link |-> Capture("none", <<>>),
     description |-> Capture("none", <<>>),
     pubDate |-> Capture("plain", <<"Tue, 02 Jan 2024">>),
     creator |-> Capture("plain", <<"bob">>)]

ItemNoTitle ==
    [title |-> Capture("none", <<>>),
     link |-> Capture("plain", <<"https://core.trac.wordpress.org/ticket/3">>),
     description |-> Capture("cdata", <<"text">>),
     pubDate |-> Capture("none", <<>>),
     creator |-> Capture("none", <<>>)]

ItemBlank ==
    [title |-> Capture("cdata", <<>>),
     link |-> Capture("plain", <<>>),
     description |-> Capture("none", <<>>),
     pubDate |-> Capture("none", <<>>),
     creator |-> Capture("none", <<>>)]

ItemPool == {ItemFull, ItemPlain, ItemNoLink, ItemNoTitle, ItemBlank}

Feeds == UNION {[1..n -> ItemPool] : n \in 0..MaxItems}

FeedOutcomes == {NetworkError, ServerError500} \cup {Ok200(f) : f \in Feeds}

NoArgs == <<>>

TimelineArgs ==
    {NoArgs, [days |-> 1], [days |-> 45], [limit |-> 5], [limit |-> 500],
     [days |-> 45, limit |-> 500]}

\* The feed URL (index.ts:762)
TimelineUrl(args) ==
    [path |-> <<"/timeline">>,
     from |-> NumToStr(Arg(args, "days", TimelineDefaultDays)) \o <<"+days ago">>,
     max |-> NumToStr(Min(Arg(args, "limit", TimelineDefaultLimit), TimelineMaxCap)),
     format |-> <<"rss">>]

\* titleMatch && linkMatch: the current revision falls back to the plain
\* title pattern, the XML-RPC revision knows the CDATA pattern only
TitleMatches(item) ==
    IF rev = "csv" THEN item.title.kind # "none" ELSE item.title.kind = "cdata"

DescMatches(item) ==
    IF rev = "csv" THEN item.description.kind # "none"
    ELSE item.description.kind = "cdata"

\* The event of the current revision (index.ts:798-814); n events precede it
TimelineEvent(item, n) ==
    LET title == IF Trim(item.title.text) # <<>> THEN Trim(item.title.text)
                 ELSE <<"Unknown Event">>
        link == Trim(item.link.text)
        description == IF DescMatches(item) THEN Extracted(item.description.text)
                       ELSE <<>>
        date == IF item.pubDate.kind # "none" THEN Trim(item.pubDate.text) ELSE <<>>
        creator == IF item.creator.kind # "none" THEN Trim(item.creator.text)
                   ELSE <<>>
    IN [id |-> IF link # <<>> THEN link ELSE <<"event-">> \o NumToStr(n),
        title |-> title,
        text |-> title
                   \o <<"\n\nAuthor: ">>
                   \o (IF creator # <<>> THEN creator ELSE <<"Unknown">>)
                   \o <<"\nDate: ">> \o (IF date # <<>> THEN date ELSE <<"Unknown">>)
                   \o <<"\n\n">>
                   \o (IF description # <<>> THEN description
                       ELSE <<"No description available">>),
        url |-> link,
        metadata |-> [date |-> date, author |-> creator,
                      description |-> description]]

\* The event of the XML-RPC revision (index.ts:1898-1907)
RpcTimelineEvent(item) ==
    LET desc == IF DescMatches(item) THEN item.description.text ELSE <<>>
        date == IF item.pubDate.kind # "none" THEN item.pubDate.text ELSE <<>>
    IN [id |-> item.link.text,
        title |-> item.title.text,
        text |-> item.title.text \o <<"\n\n">> \o desc \o <<"\n\nDate: ">>
                   \o (IF item.pubDate.kind # "none" THEN date ELSE <<"Unknown">>),
        url |-> item.link.text,
        metadata |-> [date |-> date, description |-> desc]]

\* An item loop that gives up at the first item without title or link
RECURSIVE TimelineEventsUntilGap(_, _)
TimelineEventsUntilGap(items, events) ==
    IF items = <<>> THEN events
    ELSE LET item == Head(items)
         IN IF TitleMatches(item) /\ item.link.kind # "none"
            THEN TimelineEventsUntilGap(Tail(items),
                     Append(events, IF rev = "csv"
                                    THEN TimelineEvent(item, Len(events))
                                    ELSE RpcTimelineEvent(item)))
            ELSE events

\* The item loop (index.ts:780-817 and 1890-1910)
RECURSIVE TimelineEvents(_, _)
TimelineEvents(items, events) ==
    IF items = <<>> THEN events
    ELSE LET item == Head(items)
         IN IF TitleMatches(item) /\ item.link.kind # "none"
            THEN TimelineEvents(Tail(items),
                     Append(events, IF rev = "csv"
                                    THEN TimelineEvent(item, Len(events))
                                    ELSE RpcTimelineEvent(item)))
            ELSE TimelineEvents(Tail(items), events)

\* The result record of getTimeline (index.ts:819-824)
TimelineSuccess(args, events) ==
    [results |-> events, totalEvents |-> Len(events),
     daysBack |-> Arg(args, "days", TimelineDefaultDays),
     timelineUrl |-> <<"https://core.trac.wordpress.org/timeline">>]

\* The failure record of getTimeline (index.ts:826-831 and 1919-1922)
TimelineFailure(args, message) ==
    IF rev = "csv"
    THEN [results |-> <<>>, error |-> message,
          daysBack |-> Arg(args, "days", TimelineDefaultDays),
          timelineUrl |-> <<"https://core.trac.wordpress.org/timeline">>]
    ELSE [results |-> <<>>, error |-> message]

\* tools/call getTimeline, up to the await (index.ts:758-768)
GetTimelineCall(id, args) ==
    /\ pc = "idle"
    /\ request' = [method |-> "tools/call", id |-> id,
                   params |-> [name |-> "getTimeline", arguments |-> args]]
    /\ locals' = [tool |-> "getTimeline"]
    /\ log' = <<FetchEvent("primary", TimelineUrl(args))>>
    /\ pc' = "timelineFeed"
    /\ UNCHANGED <<rev, parked, response, ticketCache>>

\* The feed arrives (index.ts:770-834)
GetTimelineFeed(o) ==
    /\ pc = "timelineFeed"
    /\ LET id == request.id
           args == request.params.arguments
       IN IF o.kind = "throw"
          THEN /\ Finish(ResultEnvelope(id, TimelineFailure(args, o.message)))
               /\ log' = Heard("primary", o)
          ELSE IF ~o.ok
          THEN /\ Finish(ResultEnvelope(id, TimelineFailure(args,
                        <<"Failed to fetch timeline: ">> \o o.statusText)))
               /\ log' = Heard("primary", o)
          ELSE /\ Finish(ResultEnvelope(id,
                        TimelineSuccess(args, TimelineEvents(o.body, <<>>))))
               /\ log' = Heard("primary", o)
                             \o <<TextEvent("primary"), ParseEvent("primary")>>
    /\ UNCHANGED <<rev, parked, request, ticketCache>>

\* --------------------------------------------- getTracInfo, current revision

InfoTypes ==
    {"components", "milestones", "priorities", "severities", "types", "statuses",
     "bogus"}

InfoArgs == {[type |-> t] : t \in InfoTypes}

\* The query URL of getTracInfo (index.ts:844-846)
InfoUrl == [path |-> <<"/query">>, format |-> <<"csv">>, max |-> NumToStr(1000)]

\* type.charAt(0).toUpperCase() + type.slice(1)
Capitalize(type) ==
    CASE type = "components" -> "Components"
      [] type = "milestones" -> "Milestones"
      [] type = "priorities" -> "Priorities"
      [] type = "severities" -> "Severities"
      [] type = "types" -> "Types"
      [] type = "statuses" -> "Statuses"
      [] type = "bogus" -> "Bogus"

\* The tokens of the upstream rows in the order of their UTF-16 code units,
\* the order Array.prototype.sort() sorts strings in
TokenOrder ==
    <<"\t", "\n", "\r", " ", "\"", ",", "1", "2", "6.0", "6.1", "Fix", "\\",
      "alice", "bob", "carol", "closed", "defect", "editor", "enhancement",
      "high", "low", "media", "n/a", "new", "notes", "reopened", "see", "task",
      "upload", BOM>>

Rank(t) == CHOOSE i \in 1..Len(TokenOrder) : TokenOrder[i] = t

RECURSIVE StrLess(_, _)
StrLess(a, b) ==
    IF b = <<>> THEN FALSE
    ELSE IF a = <<>> THEN TRUE
    ELSE IF Head(a) = Head(b) THEN StrLess(Tail(a), Tail(b))
    ELSE Rank(Head(a)) < Rank(Head(b))

\* The values from the greatest down
RECURSIVE DescendingValues(_)
DescendingValues(set) ==
    IF set = {} THEN <<>>
    ELSE LET greatest == CHOOSE v \in set : \A w \in set \ {v} : StrLess(w, v)
         IN <<greatest>> \o DescendingValues(set \ {greatest})

\* Array.from(uniqueValues).sort()
RECURSIVE SortedValues(_)
SortedValues(set) ==
    IF set = {} THEN <<>>
    ELSE LET least == CHOOSE v \in set : \A w \in set \ {v} : StrLess(v, w)
         IN <<least>> \o SortedValues(set \ {least})

\* The values of column columnIndex (from 0) in the rows (index.ts:898-946)
ColumnValues(lines, columnIndex) ==
    {Trim(BetterParseLine(Trim(lines[i]))[columnIndex + 1]) :
        i \in {k \in 2..Len(lines) :
                  /\ Trim(lines[k]) # <<>>
                  /\ columnIndex + 1 <= Len(BetterParseLine(Trim(lines[k])))
                  /\ Trim(BetterParseLine(Trim(lines[k]))[columnIndex + 1]) # <<>>}}

\* The failure record of getTracInfo (index.ts:962-968)
InfoFailure(type, message) ==
    [id |-> type,
     title |-> <<"Error loading ", type>>,
     text |-> <<"Error: ">> \o message
                \o <<". Available types: ", "components", ", ", "milestones", ", ",
                     "priorities", ", ", "severities", ", ", "types", ", ",
                     "statuses">>,
     url |-> <<"https://core.trac.wordpress.org/">>,
     metadata |-> [error |-> TRUE]]

\* The result record of getTracInfo (index.ts:950-960)
InfoSuccess(type, data) ==
    [id |-> type,
     title |-> <<"WordPress Trac ", type>>,
     text |-> <<Capitalize(type), " available in WordPress Trac:\n\n">>
                \o Join(data, "\n"),
     url |-> <<"https://core.trac.wordpress.org/">>,
     metadata |-> [type |-> type, data |-> data, total |-> Len(data)]]

ComponentsUnavailable ==
    <<"Components list not available in default query. ",
      "Try using the search function instead.">>

SeveritiesUnavailable ==
    <<"Severities list not available in default query. ",
      "Try using the search function instead.">>

UnknownInfoType(type) ==
    <<"Unknown info type: ", type, ". Available types: ", "milestones", ", ",
      "priorities", ", ", "types", ", ", "statuses">>

\* What getTracInfo makes of the body of an OK response (index.ts:860-960):
\* the header is read first, then the type is looked at
InfoResult(type, csvData) ==
    LET lines == Split(Trim(StripBOM(csvData)), "\n")
        headers == ParseHeaders(lines[1])
        columnIndex ==
            CASE type = "milestones" -> IndexOf(headers, <<"Milestone">>)
              [] type = "priorities" -> IndexOf(headers, <<"Priority">>)
              [] type = "types" -> IndexOf(headers, <<"Type">>)
              [] type = "statuses" -> IndexOf(headers, <<"Status">>)
              [] OTHER -> -1
    IN IF type = "components" THEN InfoFailure(type, ComponentsUnavailable)
       ELSE IF type = "severities" THEN InfoFailure(type, SeveritiesUnavailable)
       ELSE IF type \notin {"milestones", "priorities", "types", "statuses"}
       THEN InfoFailure(type, UnknownInfoType(type))
       ELSE IF columnIndex = -1
       THEN InfoFailure(type, <<"Column not found for type: ", type,
                                ". Available columns: ">> \o Join(headers, ", "))
       ELSE InfoSuccess(type, SortedValues(ColumnValues(lines, columnIndex)))

\* tools/call getTracInfo, up to the await (index.ts:836-854)
GetTracInfoCall(id, args) ==
    /\ pc = "idle"
    /\ rev = "csv"
    /\ request' = [method |-> "tools/call", id |-> id,
                   params |-> [name |-> "getTracInfo", arguments |-> args]]
    /\ locals' = [tool |-> "getTracInfo"]
    /\ log' = <<FetchEvent("primary", InfoUrl)>>
    /\ pc' = "infoExport"
    /\ UNCHANGED <<rev, parked, response, ticketCache>>

\* The export arrives (index.ts:856-971)
GetTracInfoExport(o) ==
    /\ pc = "infoExport"
    /\ LET id == request.id
           type == request.params.arguments.type
       IN IF o.kind = "throw"
          THEN /\ Finish(ResultEnvelope(id, InfoFailure(type, o.message)))
               /\ log' = Heard("primary", o)
          ELSE IF ~o.ok
          THEN /\ Finish(ResultEnvelope(id, InfoFailure(type, HttpErrorMessage(o))))
               /\ log' = Heard("primary", o)
          ELSE /\ Finish(ResultEnvelope(id, InfoResult(type, o.body)))
               /\ log' = Heard("primary", o)
                             \o <<TextEvent("primary"), ParseEvent("primary")>>
    /\ UNCHANGED <<rev, parked, request, ticketCache>>

\* ------------------------------------------------------ the XML-RPC client

\* The body of an XML-RPC response is modelled by what parseXmlRpcResponse
\* (index.ts:1400-1457) reads in it: a fault, no value at all, or a value.
Fault(code, text) == [xml |-> "fault", faultCode |-> code, faultString |-> text]

InvalidXml == [xml |-> "invalid"]

Value(v) == [xml |-> "value", value |-> v]

\* tracClient.call (index.ts:1459-1477): the value, or the error thrown
Threw(message) == [threw |-> TRUE, message |-> message]

RpcReply(o) ==
    IF o.kind = "throw" THEN Threw(o.message)
    ELSE IF ~o.ok THEN Threw(HttpErrorMessage(o))
    ELSE IF o.body.xml = "fault"
    THEN Threw(<<"XML-RPC Fault ">> \o o.body.faultCode \o <<": ">>
                   \o o.body.faultString)
    ELSE IF o.body.xml = "invalid" THEN Threw(<<"Invalid XML-RPC response format">>)
    ELSE [threw |-> FALSE, value |-> o.body.value]

RpcFailures ==
    {NetworkError, Forbidden403,
     Ok200(Fault(<<"403">>, <<"TICKET_VIEW privileges are required">>)),
     Ok200(InvalidXml)}

RpcEvent(method, params) == [ev |-> "fetch", which |-> method, params |-> params]

\* ------------------------------------------ searchTickets, XML-RPC revision

RpcIds == {1, 2}

RpcSearchArgs ==
    {[query |-> <<"media">>], [query |-> <<"~", "media">>, limit |-> 1],
     [query |-> <<"media">>, limit |-> 500],
     [query |-> <<"media">>, limit |-> 0, status |-> <<"new">>],
     [query |-> <<"media">>, component |-> <<"Editor">>]}

\* What ticket.query can answer with: ticket ids, each at most once
IdLists ==
    {ids \in UNION {[1..n -> RpcIds] : n \in 0..MaxIds} :
        \A i, j \in 1..Len(ids) : ids[i] = ids[j] => i = j}

QueryOutcomes == RpcFailures \cup {Ok200(Value(ids)) : ids \in IdLists}

\* The attributes ticket.get answers with, ticketData[3]
AttrsFull ==
    [summary |-> <<"Fix", " ", "editor">>, description |-> <<"steps">>,
     status |-> <<"new">>, component |-> <<"Editor">>, type |-> <<"defect">>,
     priority |-> <<"high">>, milestone |-> <<"6.0">>, owner |-> <<"alice">>,
     reporter |-> <<"bob">>]

AttrsBlank == <<>>

TicketOutcomes == RpcFailures \cup {Ok200(Value(a)) : a \in {AttrsFull, AttrsBlank}}

\* attrs.name || dflt
AttrOr(attrs, name, dflt) ==
    IF name \in DOMAIN attrs /\ attrs[name] # <<>> THEN attrs[name] ELSE dflt

\* The filter sent to ticket.query (index.ts:1637-1656)
RpcFilter(args) ==
    (IF Includes(args.query, <<"=">>) \/ Includes(args.query, <<"~">>)
     THEN args.query
     ELSE <<"summary~=">> \o args.query \o <<"|description~=">> \o args.query)
        \o (IF HasArg(args, "status") THEN <<"&status=">> \o args.status ELSE <<>>)
        \o (IF HasArg(args, "component") THEN <<"&component=">> \o args.component
            ELSE <<>>)

\* The ticket record of the XML-RPC revision (index.ts:1671-1683)
RpcTicket(ticketId, attrs) ==
    [id |-> ticketId,
     title |-> AttrOr(attrs, "summary", <<>>),
     text |-> <<"#">> \o NumToStr(ticketId) \o <<": ">>
                \o AttrOr(attrs, "summary", <<"No summary">>)
                \o <<"\nStatus: ">> \o AttrOr(attrs, "status", <<"unknown">>)
                \o <<"\nComponent: ">> \o AttrOr(attrs, "component", <<"unknown">>)
                \o <<"\nType: ">> \o AttrOr(attrs, "type", <<"unknown">>)
                \o <<"\nPriority: ">> \o AttrOr(attrs, "priority", <<"unknown">>),
     url |-> <<"https://core.trac.wordpress.org/ticket/">> \o NumToStr(ticketId),
     metadata |-> [status |-> AttrOr(attrs, "status", <<"unknown">>),
                   component |-> AttrOr(attrs, "component", <<"unknown">>),
                   priority |-> AttrOr(attrs, "priority", <<"unknown">>),
                   milestone |-> AttrOr(attrs, "milestone", <<>>),
                   type |-> AttrOr(attrs, "type", <<"unknown">>)]]

\* A ticket.get failure answered from ticketCache where it holds the ticket
RpcTicketErrorOrCached(ticketId, message) ==
    IF \E e \in ticketCache : e.key = ticketId
    THEN (CHOOSE e \in ticketCache : e.key = ticketId).value
    ELSE [id |-> ticketId,
          title |-> <<"Error loading ", "ticket ">> \o NumToStr(ticketId),
          text |-> <<"Error: ">> \o message,
          url |-> <<"https://core.trac.wordpress.org/ticket/">>
                      \o NumToStr(ticketId),
          metadata |-> [status |-> <<"error">>]]

\* The record of a ticket that could not be loaded (index.ts:1690-1696)
RpcTicketError(ticketId, message) ==
    [id |-> ticketId,
     title |-> <<"Error loading ", "ticket ">> \o NumToStr(ticketId),
     text |-> <<"Error: ">> \o message,
     url |-> <<"https://core.trac.wordpress.org/ticket/">> \o NumToStr(ticketId),
     metadata |-> [status |-> <<"error">>]]

\* The result record of the XML-RPC searchTickets (index.ts:1701-1706)
RpcSearchSuccess(args, ticketIds, tickets) ==
    [results |-> tickets, query |-> args.query, totalFound |-> Len(ticketIds),
     returned |-> Len(tickets)]

\* ticketCache.set(ticketId, ticket)
CacheSet(cache, ticketId, ticket) ==
    {e \in cache : e.key # ticketId} \cup {[key |-> ticketId, value |-> ticket]}

\* tools/call searchTickets, up to the await of ticket.query
\* (index.ts:1633-1659)
RpcSearchTicketsCall(id, args) ==
    /\ pc = "idle"
    /\ rev = "xmlrpc"
    /\ request' = [method |-> "tools/call", id |-> id,
                   params |-> [name |-> "searchTickets", arguments |-> args]]
    /\ locals' = [tool |-> "searchTickets"]
    /\ log' = <<RpcEvent("ticket.query", <<RpcFilter(args)>>)>>
    /\ pc' = "rpcQuery"
    /\ UNCHANGED <<rev, parked, response, ticketCache>>

\* ticket.query answers (index.ts:1659-1668): an error leaves the case, which
\* has no try of its own, for the outer catch; else one ticket.get goes out
\* for each of the first ids, all at once
RpcSearchTicketsQuery(o) ==
    /\ pc = "rpcQuery"
    /\ LET id == request.id
           args == request.params.arguments
           reply == RpcReply(o)
           limit == Arg(args, "limit", SearchDefaultLimit)
           limitedIds == IF reply.threw THEN <<>>
                         ELSE Slice(reply.value, Min(limit, SearchMaxCap))
       IN IF reply.threw
          THEN /\ Finish(ErrorEnvelope(id, InternalErrorCode,
                                       <<"Error: ">> \o reply.message))
               /\ log' = Heard("ticket.query", o)
          ELSE IF limitedIds = <<>>
          THEN /\ Finish(ResultEnvelope(id,
                        RpcSearchSuccess(args, reply.value, <<>>)))
               /\ log' = Append(Heard("ticket.query", o), TextEvent("ticket.query"))
          ELSE /\ pc' = "rpcTickets"
               /\ locals' = [tool |-> "searchTickets", ticketIds |-> reply.value,
                             limitedIds |-> limitedIds,
                             tickets |-> [i \in 1..Len(limitedIds) |-> Pending]]
               /\ log' = Heard("ticket.query", o) \o <<TextEvent("ticket.query")>>
                             \o [i \in 1..Len(limitedIds) |->
                                    RpcEvent("ticket.get", <<limitedIds[i]>>)]
               /\ UNCHANGED response
    /\ UNCHANGED <<rev, parked, request, ticketCache>>

\* One ticket.get answers (index.ts:1667-1699), in whatever order; the last
\* one settles Promise.all and the call
RpcSearchTicketsGet(i, o) ==
    /\ pc = "rpcTickets"
    /\ i \in 1..Len(locals.limitedIds)
    /\ locals.tickets[i] = Pending
    /\ LET id == request.id
           args == request.params.arguments
           reply == RpcReply(o)
           ticketId == locals.limitedIds[i]
           ticket == IF reply.threw THEN RpcTicketError(ticketId, reply.message)
                     ELSE RpcTicket(ticketId, reply.value)
           tickets == [locals.tickets EXCEPT ![i] = ticket]
       IN /\ ticketCache' = IF reply.threw THEN ticketCache
                            ELSE CacheSet(ticketCache, ticketId, ticket)
          /\ log' = IF o.kind = "http" /\ o.ok
                    THEN Append(HeardFor("ticket.get", ticketId, o),
                                TextEvent("ticket.get"))
                    ELSE HeardFor("ticket.get", ticketId, o)
          /\ IF \A k \in 1..Len(tickets) : tickets[k] # Pending
             THEN Finish(ResultEnvelope(id,
                      RpcSearchSuccess(args, locals.ticketIds, tickets)))
             ELSE /\ locals' = [locals EXCEPT !.tickets = tickets]
                  /\ UNCHANGED <<pc, response>>
    /\ UNCHANGED <<rev, parked, request>>

\* ---------------------------------------------- getTicket, XML-RPC revision

\* A time as parseValue hands it on: a number, or the text of a
\* dateTime.iso8601 element, which no branch of parseValue converts
NumTime == [isNumber |-> TRUE, seconds |-> 1700000]

TextTime == [isNumber |-> FALSE]

AttrsTimed == [summary |-> <<"media">>, time |-> NumTime, changetime |-> NumTime]

AttrsTextTime == [summary |-> <<"media">>, time |-> TextTime]

RpcTicketOutcomes ==
    RpcFailures
        \cup {Ok200(Value(a)) : a \in {AttrsFull, AttrsBlank, AttrsTimed, AttrsTextTime}}

\* One entry of ticket.changeLog: [time, author, field, oldvalue, newvalue]
Change(time, author, field, newvalue) ==
    [time |-> time, author |-> author, field |-> field, newvalue |-> newvalue]

Comment1 == Change(NumTime, <<"alice">>, "comment", <<"looks good">>)

Comment2 == Change(NumTime, <<>>, "comment", <<"+1">>)

StatusChange == Change(NumTime, <<"bob">>, "status", <<"closed">>)

EmptyComment == Change(NumTime, <<"bob">>, "comment", <<>>)

TextTimeComment == Change(TextTime, <<"carol">>, "comment", <<"see patch">>)

ChangeLogs ==
    {<<>>, <<Comment1>>, <<StatusChange, Comment1, EmptyComment, Comment2>>,
     <<Comment1, TextTimeComment>>}

ChangeLogOutcomes == RpcFailures \cup {Ok200(Value(c)) : c \in ChangeLogs}

RpcGetTicketArgs ==
    {[id |-> 1], [id |-> 1, includeComments |-> FALSE], [id |-> 1, commentLimit |-> 1],
     [id |-> 2, commentLimit |-> 500]}

\* new Date(t * 1000).toISOString(): a RangeError for a time that is no number
IsoString(time) == <<"ISO:">> \o NumToStr(time.seconds * 1000)

\* The ticket read from ticket.get (index.ts:1718-1735)
RpcTicketDetails(id, attrs) ==
    [id |-> id,
     summary |-> AttrOr(attrs, "summary", <<>>),
     description |-> AttrOr(attrs, "description", <<>>),
     status |-> AttrOr(attrs, "status", <<>>),
     resolution |-> AttrOr(attrs, "resolution", <<>>),
     priority |-> AttrOr(attrs, "priority", <<>>),
     component |-> AttrOr(attrs, "component", <<>>),
     milestone |-> AttrOr(attrs, "milestone", <<>>),
     version |-> AttrOr(attrs, "version", <<>>),
     reporter |-> AttrOr(attrs, "reporter", <<>>),
     owner |-> AttrOr(attrs, "owner", <<>>),
     cc |-> AttrOr(attrs, "cc", <<>>),
     keywords |-> AttrOr(attrs, "keywords", <<>>),
     type |-> AttrOr(attrs, "type", <<>>),
     created |-> IF "time" \in DOMAIN attrs THEN IsoString(attrs.time) ELSE <<>>,
     modified |-> IF "changetime" \in DOMAIN attrs THEN IsoString(attrs.changetime)
                  ELSE <<>>]

\* Whether building the ticket throws: a time that is no number
TicketDetailsThrow(attrs) ==
    \/ "time" \in DOMAIN attrs /\ ~attrs.time.isNumber
    \/ "changetime" \in DOMAIN attrs /\ ~attrs.changetime.isNumber

\* .filter(change => change[2] === 'comment' && change[4])
RECURSIVE CommentChanges(_)
CommentChanges(changelog) ==
    IF changelog = <<>> THEN <<>>
    ELSE IF Head(changelog).field = "comment" /\ Head(changelog).newvalue # <<>>
    THEN <<Head(changelog)>> \o CommentChanges(Tail(changelog))
    ELSE CommentChanges(Tail(changelog))

\* The comments read from ticket.changeLog (index.ts:1742-1749); a time that
\* is no number throws, and the comments stay empty
RpcComments(changelog, commentLimit) ==
    LET kept == Slice(CommentChanges(changelog), Min(commentLimit, CommentMaxCap))
    IN IF \E k \in 1..Len(kept) : ~kept[k].time.isNumber
       THEN <<>>
       ELSE [k \in 1..Len(kept) |->
                [author |-> IF kept[k].author # <<>> THEN kept[k].author
                            ELSE <<"anonymous">>,
                 timestamp |-> IsoString(kept[k].time),
                 comment |-> kept[k].newvalue]]

\* ${c.author}: ${c.comment} joined by blank lines
RECURSIVE RenderComments(_)
RenderComments(comments) ==
    IF comments = <<>> THEN <<>>
    ELSE Head(comments).author \o <<": ">> \o Head(comments).comment
            \o (IF Len(comments) > 1 THEN <<"\n\n">> ELSE <<>>)
            \o RenderComments(Tail(comments))

\* The result record of the XML-RPC getTicket (index.ts:1755-1765)
RpcTicketSuccess(ticket, comments) ==
    [id |-> ticket.id,
     title |-> <<"#">> \o NumToStr(ticket.id) \o <<": ">> \o ticket.summary,
     text |-> <<"Ticket #">> \o NumToStr(ticket.id) \o <<": ">> \o ticket.summary
                \o <<"\n\nStatus: ">> \o ticket.status
                \o <<"\nComponent: ">> \o ticket.component
                \o <<"\nPriority: ">> \o ticket.priority
                \o <<"\nType: ">> \o ticket.type
                \o <<"\nReporter: ">> \o ticket.reporter
                \o <<"\nOwner: ">> \o ticket.owner
                \o <<"\n\nDescription:\n">> \o ticket.description
                \o <<"\n\n">>
                \o (IF Len(comments) > 0
                    THEN <<"Comments (">> \o NumToStr(Len(comments)) \o <<"):\n">>
                            \o RenderComments(comments)
                    ELSE <<"No comments">>),
     url |-> <<"https://core.trac.wordpress.org/ticket/">> \o NumToStr(ticket.id),
     metadata |-> [ticket |-> ticket, comments |-> comments,
                   totalComments |-> Len(comments)]]

\* tools/call getTicket, up to the await of ticket.get (index.ts:1710-1715)
RpcGetTicketCall(id, args) ==
    /\ pc = "idle"
    /\ rev = "xmlrpc"
    /\ request' = [method |-> "tools/call", id |-> id,
                   params |-> [name |-> "getTicket", arguments |-> args]]
    /\ locals' = [tool |-> "getTicket"]
    /\ log' = <<RpcEvent("ticket.get", <<args.id>>)>>
    /\ pc' = "rpcTicket"
    /\ UNCHANGED <<rev, parked, response, ticketCache>>

\* ticket.get answers (index.ts:1715-1741)
RpcGetTicketGet(o) ==
    /\ pc = "rpcTicket"
    /\ LET id == request.id
           args == request.params.arguments
           reply == RpcReply(o)
       IN IF reply.threw
          THEN /\ Finish(ResultEnvelope(id, TicketFailure(args.id, reply.message)))
               /\ log' = IF o.kind = "http" /\ o.ok
                         THEN Append(Heard("ticket.get", o), TextEvent("ticket.get"))
                         ELSE Heard("ticket.get", o)
          ELSE IF TicketDetailsThrow(reply.value)
          THEN /\ Finish(ResultEnvelope(id,
                        TicketFailure(args.id, <<"Invalid time value">>)))
               /\ log' = Append(Heard("ticket.get", o), TextEvent("ticket.get"))
          ELSE LET ticket == RpcTicketDetails(args.id, reply.value)
               IN IF Arg(args, "includeComments", TRUE)
                  THEN /\ pc' = "rpcChangeLog"
                       /\ locals' = [tool |-> "getTicket", ticket |-> ticket]
                       /\ log' = Heard("ticket.get", o) \o <<TextEvent("ticket.get"),
                                          RpcEvent("ticket.changeLog", <<args.id>>)>>
                       /\ UNCHANGED response
                  ELSE /\ Finish(ResultEnvelope(id, RpcTicketSuccess(ticket, <<>>)))
                       /\ log' = Append(Heard("ticket.get", o), TextEvent("ticket.get"))
    /\ UNCHANGED <<rev, parked, request, ticketCache>>

\* ticket.changeLog answers (index.ts:1741-1776); a failure is only warned of
RpcGetTicketChangeLog(o) ==
    /\ pc = "rpcChangeLog"
    /\ LET id == request.id
           args == request.params.arguments
           reply == RpcReply(o)
           comments == IF reply.threw THEN <<>>
                       ELSE RpcComments(reply.value,
                                        Arg(args, "commentLimit", CommentDefaultLimit))
       IN /\ Finish(ResultEnvelope(id, RpcTicketSuccess(locals.ticket, comments)))
          /\ log' = IF o.kind = "http" /\ o.ok
                    THEN Append(Heard("ticket.changeLog", o),
                                TextEvent("ticket.changeLog"))
                    ELSE Heard("ticket.changeLog", o)
    /\ UNCHANGED <<rev, parked, request, ticketCache>>

\* -------------------------------------------- getTracInfo, XML-RPC revision

InfoLists == {<<>>, << <<"Editor">>, <<"Media">> >>}

InfoListOutcomes == RpcFailures \cup {Ok200(Value(l)) : l \in InfoLists}

RpcInfoMethod(type) ==
    CASE type = "components" -> "ticket.component.getAll"
      [] type = "milestones" -> "ticket.milestone.getAll"
      [] type = "priorities" -> "ticket.priority.getAll"
      [] type = "severities" -> "ticket.severity.getAll"

RpcInfoTypes == {"components", "milestones", "priorities", "severities"}

\* The failure record of the XML-RPC getTracInfo (index.ts:1962-1968)
RpcInfoFailure(type, message) ==
    [id |-> type,
     title |-> <<"Error loading ", type>>,
     text |-> <<"Error: ">> \o message,
     url |-> <<"https://core.trac.wordpress.org/">>,
     metadata |-> [error |-> TRUE]]

\* tools/call getTracInfo (index.ts:1927-1948): a known type asks the
\* tracker, any other type fails at once
RpcGetTracInfoCall(id, args) ==
    /\ pc = "idle"
    /\ rev = "xmlrpc"
    /\ request' = [method |-> "tools/call", id |-> id,
                   params |-> [name |-> "getTracInfo", arguments |-> args]]
    /\ IF args.type \in RpcInfoTypes
       THEN /\ locals' = [tool |-> "getTracInfo"]
            /\ log' = <<RpcEvent(RpcInfoMethod(args.type), <<>>)>>
            /\ pc' = "rpcInfo"
            /\ UNCHANGED response
       ELSE /\ Finish(ResultEnvelope(id, RpcInfoFailure(args.type,
                     <<"Unknown info type: ", args.type>>)))
            /\ log' = <<>>
    /\ UNCHANGED <<rev, parked, ticketCache>>

\* The list arrives (index.ts:1935-1971)
RpcGetTracInfoList(o) ==
    /\ pc = "rpcInfo"
    /\ LET id == request.id
           type == request.params.arguments.type
           reply == RpcReply(o)
       IN /\ IF reply.threw
             THEN Finish(ResultEnvelope(id, RpcInfoFailure(type, reply.message)))
             ELSE Finish(ResultEnvelope(id, InfoSuccess(type, reply.value)))
          /\ log' = IF o.kind = "http" /\ o.ok
                    THEN Append(Heard(RpcInfoMethod(type), o),
                                TextEvent(RpcInfoMethod(type)))
                    ELSE Heard(RpcInfoMethod(type), o)
    /\ UNCHANGED <<rev, parked, request, ticketCache>>

\* ------------------------------------------------- the rest of the protocol

ToolNames ==
    <<"searchTickets", "getTicket", "getChangeset", "getTimeline", "getTracInfo">>

\* initialize (index.ts:152-167)
Initialize(id) ==
    /\ pc = "idle"
    /\ request' = [method |-> "initialize", id |-> id]
    /\ Finish([jsonrpc |-> "2.0", id |-> id,
               result |-> [protocolVersion |-> "2024-11-05",
                           serverInfo |-> [name |-> "WordPress Trac",
                                           version |-> "1.0.0"]]])
    /\ UNCHANGED <<rev, parked, log, ticketCache>>

\* tools/list (index.ts:169-286)
ToolsList(id) ==
    /\ pc = "idle"
    /\ request' = [method |-> "tools/list", id |-> id]
    /\ Finish([jsonrpc |-> "2.0", id |-> id, result |-> [tools |-> ToolNames]])
    /\ UNCHANGED <<rev, parked, log, ticketCache>>

\* Any other method (index.ts:998-1006)
MethodNotFound(id, method) ==
    /\ pc = "idle"
    /\ request' = [method |-> method, id |-> id]
    /\ Finish(ErrorEnvelope(id, MethodNotFoundCode, <<"Method not found: ", method>>))
    /\ UNCHANGED <<rev, parked, log, ticketCache>>

\* tools/call with a tool name no case knows (index.ts:973-974 and 987-995)
UnknownTool(id, name) ==
    /\ pc = "idle"
    /\ request' = [method |-> "tools/call", id |-> id,
                   params |-> [name |-> name, arguments |-> NoArgs]]
    /\ Finish(ErrorEnvelope(id, InternalErrorCode,
                            <<"Error: ", "Unknown tool: ", name>>))
    /\ UNCHANGED <<rev, parked, log, ticketCache>>

\* tools/call without params (index.ts:289): destructuring undefined throws
\* before the try is entered, and handleMcpRequest rejects
ToolsCallWithoutParams(id) ==
    /\ pc = "idle"
    /\ request' = [method |-> "tools/call", id |-> id]
    /\ Finish(Thrown(<<"Cannot destructure property 'name' of 'params'">>))
    /\ UNCHANGED <<rev, parked, log, ticketCache>>

\* tools/call of a known tool without arguments (index.ts:296, 513, 657, 759,
\* 837): destructuring undefined throws inside the outer try
ToolsCallWithoutArguments(id, name) ==
    /\ pc = "idle"
    /\ request' = [method |-> "tools/call", id |-> id, params |-> [name |-> name]]
    /\ Finish(ErrorEnvelope(id, InternalErrorCode,
                            <<"Error: ", "Cannot destructure property of 'args'">>))
    /\ UNCHANGED <<rev, parked, log, ticketCache>>

\* The caller has its answer; the server is ready for the next request
Return ==
    /\ pc = "done"
    /\ pc' = "idle"
    /\ request' = NoRequest
    /\ response' = Pending
    /\ log' = <<>>
    /\ UNCHANGED <<rev, parked, locals, ticketCache>>

Next ==
    \/ \E id \in RequestIds, args \in SearchArgs : SearchTicketsCall(id, args)
    \/ \E o \in CsvOutcomes : SearchTicketsPrimary(o)
    \/ \E o \in CsvOutcomes : SearchTicketsFallback(o)
    \/ \E id \in RequestIds, args \in GetTicketArgs : GetTicketCall(id, args)
    \/ \E o \in CsvOutcomes : GetTicketPrimary(o)
    \/ \E id \in RequestIds, args \in ChangesetArgs : GetChangesetCall(id, args)
    \/ \E o \in PageOutcomes : GetChangesetPage(o)
    \/ \E o \in DiffOutcomes : GetChangesetDiff(o)
    \/ \E id \in RequestIds, args \in TimelineArgs : GetTimelineCall(id, args)
    \/ \E o \in FeedOutcomes : GetTimelineFeed(o)
    \/ \E id \in RequestIds, args \in InfoArgs : GetTracInfoCall(id, args)
    \/ \E o \in CsvOutcomes : GetTracInfoExport(o)
    \/ \E id \in RequestIds, args \in RpcSearchArgs : RpcSearchTicketsCall(id, args)
    \/ \E o \in QueryOutcomes : RpcSearchTicketsQuery(o)
    \/ \E i \in 1..MaxIds, o \in TicketOutcomes : RpcSearchTicketsGet(i, o)
    \/ \E id \in RequestIds, args \in RpcGetTicketArgs : RpcGetTicketCall(id, args)
    \/ \E o \in RpcTicketOutcomes : RpcGetTicketGet(o)
    \/ \E o \in ChangeLogOutcomes : RpcGetTicketChangeLog(o)
    \/ \E id \in RequestIds, args \in InfoArgs : RpcGetTracInfoCall(id, args)
    \/ \E o \in InfoListOutcomes : RpcGetTracInfoList(o)
    \/ \E id \in RequestIds : Initialize(id)
    \/ \E id \in RequestIds : ToolsList(id)
    \/ \E id \in RequestIds : MethodNotFound(id, "resources/list")
    \/ \E id \in RequestIds : UnknownTool(id, "search")
    \/ \E id \in RequestIds : ToolsCallWithoutParams(id)
    \/ \E id \in RequestIds, i \in 1..Len(ToolNames) :
            ToolsCallWithoutArguments(id, ToolNames[i])
    \/ Return

Spec == Init /\ [][Next]_vars

\* ------------------------------------------------------------- properties

\* The call has ended: handleMcpRequest has returned or thrown
Done == pc = "done"

\* The request is a tools/call of tool `name` that carries arguments
ToolCall(name) ==
    /\ request.method = "tools/call"
    /\ "params" \in DOMAIN request
    /\ "arguments" \in DOMAIN request.params
    /\ request.params.name = name

FetcherCall == \E i \in 1..Len(ToolNames) : ToolCall(ToolNames[i])

\* The requests of one kind this call has sent, and the answers it has had
Requests(which) == SelectSeq(log, LAMBDA e : e.ev = "fetch" /\ e.which = which)

Answers(which) == SelectSeq(log, LAMBDA e : e.ev = "answer" /\ e.which = which)

AllRequests == SelectSeq(log, LAMBDA e : e.ev = "fetch")

AllAnswers == SelectSeq(log, LAMBDA e : e.ev = "answer")

Range(f) == {f[k] : k \in DOMAIN f}

\* The upstream request failed: the call threw or the status was not OK
Failed(o) == o.kind = "throw" \/ ~o.ok

\* The response is a JSON-RPC result that wraps a record
Returned == "result" \in DOMAIN response /\ "content" \in DOMAIN response.result

Record == response.result.content[1].text

\* The failure shape of a record: title, text with a message, error flag
FailureShape(r) ==
    /\ "title" \in DOMAIN r
    /\ r.title # <<>>
    /\ r.title[1] = "Error loading "
    /\ "text" \in DOMAIN r
    /\ Len(r.text) > 1
    /\ r.text[1] = "Error: "
    /\ "metadata" \in DOMAIN r
    /\ "error" \in DOMAIN r.metadata
    /\ r.metadata.error = TRUE

\* C1: a call of one of the five tools that has had any answer from upstream
\* ends with an in-band result: the response is no JSON-RPC error and the
\* handler has not thrown.
C1_NoErrorCrossesFetcher ==
    (Done /\ FetcherCall /\ AllAnswers # <<>>)
        => ("error" \notin DOMAIN response /\ "thrown" \notin DOMAIN response)

\* C2: when the first upstream request of a tool call fails and the call
\* returns a record, the record has the failure shape: title "Error loading
\* <resource>", text "Error: " and the message, metadata {error: true}.
C2_FailureRecordShape ==
    (Done /\ FetcherCall /\ Returned /\ AllAnswers # <<>>
          /\ Failed(AllAnswers[1].outcome))
        => FailureShape(Record)

\* The body, read from an OK response, holds the document tag or the 403 text
HoldsMarkup(o) ==
    /\ ~Failed(o)
    /\ \E k \in 1..Len(o.body) : o.body[k] \in {"<html>", "403 Forbidden"}

\* The record searchTickets ended with, wrapped or not
SearchRecord == IF Returned THEN Record ELSE response

SearchEnded == Done /\ rev = "csv" /\ ToolCall("searchTickets")

AccessDenied(r) ==
    "error" \in DOMAIN r /\ r.error # <<>> /\ r.error[1] = "Access denied"

\* Every ticket of the result stems from a line of `body` that holds the query
BuiltFrom(r, body, query) ==
    /\ "error" \notin DOMAIN r
    /\ \A k \in 1..Len(r.results) :
          \E line \in {l \in Range(Split(body, "\n")) : l # <<>>} :
              /\ Includes(ToLowerCase(line), ToLowerCase(query))
              /\ SimpleParseLine(Trim(line)) # <<>>
              /\ r.results[k].id = ParseInt(SimpleParseLine(Trim(line))[1])

C4_OnePrimaryOneSecondary ==
    FetcherCall =>
        /\ Len(AllRequests) <= 2
        /\ \A k \in 1..Len(log) :
              log[k].ev = "fetch" =>
                  Len(SelectSeq(SubSeq(log, 1, k - 1), LAMBDA e : e.ev = "fetch"))
                      = Len(SelectSeq(SubSeq(log, 1, k - 1),
                                      LAMBDA e : e.ev = "answer"))
        /\ Done => Len(AllAnswers) = Len(AllRequests)

SupportedInfoTypes == {"milestones", "priorities", "types", "statuses"}

\* A getTracInfo call of the current revision for a type it does not serve
UnservedInfoCall ==
    /\ rev = "csv"
    /\ ToolCall("getTracInfo")
    /\ request.params.arguments.type \notin SupportedInfoTypes

\* C5: a getTracInfo call for an unsupported or unrecognized type sends no
\* upstream request at any point, and ends in a failure record.
C5_NoRequestForUnservedType ==
    UnservedInfoCall =>
        /\ AllRequests = <<>>
        /\ Done => (Returned /\ FailureShape(Record))

\* The types a message lists after "Available types"
ListedAvailable(text) ==
    {text[k] : k \in {j \in 1..Len(text) :
                        \E i \in 1..(j - 1) : text[i] = ". Available types: "}}

\* C6: when getTracInfo fails because of the type (the upstream has answered
\* with a tabular body), the message names milestones, priorities, types and
\* statuses, and lists neither components nor severities as available.
C6_MessageNamesSupportedTypes ==
    (UnservedInfoCall /\ Done /\ Returned /\ AllAnswers # <<>>
          /\ ~Failed(AllAnswers[1].outcome))
        => /\ SupportedInfoTypes \subseteq ListedAvailable(Record.text)
           /\ ListedAvailable(Record.text) \cap {"components", "severities"} = {}

\* The record a call ended with, wrapped in a result or not
EndRecord == SearchRecord

\* The record says that access was denied
Denied(r) ==
    \/ AccessDenied(r)
    \/ "text" \in DOMAIN r /\ \E k \in 1..Len(r.text) : r.text[k] = "Access denied"

TabularCall ==
    /\ rev = "csv"
    /\ ToolCall("searchTickets") \/ ToolCall("getTicket") \/ ToolCall("getTracInfo")

\* C7: in the tools that read the tabular export, a markup body is never
\* parsed as tabular data, and the call that has read one either sends the
\* fallback request or ends in an "access denied" failure.
C7_MarkupNeverParsed ==
    TabularCall =>
        \A k \in 1..Len(log) :
            (log[k].ev = "answer" /\ HoldsMarkup(log[k].outcome)) =>
                /\ \A j \in 1..Len(log) :
                      ~(log[j].ev = "parse" /\ log[j].which = log[k].which)
                /\ Done =>
                      \/ log[k].which = "primary" /\ Len(Requests("fallback")) = 1
                      \/ Denied(EndRecord)

\* What the rows of the export hold, read off the rows themselves
RowId(row) ==
    CASE row = Row1 -> 1 [] row = Row2 -> 2 [] row = Row3 -> 12 [] row = Row5 -> 1
      [] OTHER -> 0

RowSummary(row) ==
    CASE row = Row1 -> <<"Fix", " ", "editor">>
      [] row = Row2 -> <<"media", ",", " ", "upload">>
      [] row = Row5 -> <<"media">>
      [] OTHER -> <<>>

RowOwner(row) ==
    CASE row = Row1 -> <<"alice">> [] row = Row2 -> <<"bob">>
      [] row = Row5 -> <<"carol">> [] OTHER -> <<>>

RowStatus(row) ==
    CASE row = Row1 -> <<"new">> [] row = Row2 -> <<"closed">>
      [] row = Row5 -> <<"reopened">> [] OTHER -> <<>>

\* The record is the success record of ticket N, built from `row`
TicketFromRow(r, N, row) ==
    /\ "error" \notin DOMAIN r.metadata
    /\ r.id = N
    /\ r.metadata.ticket.id = N
    /\ r.metadata.ticket.summary = RowSummary(row)
    /\ r.metadata.ticket.owner = RowOwner(row)
    /\ r.metadata.ticket.status = RowStatus(row)

\* The record is the failure record "Ticket N not found"
NotFoundRecord(r, N) ==
    /\ FailureShape(r)
    /\ r.text = <<"Error: ", "Ticket ">> \o NumToStr(N) \o <<" not found">>

\* getTicket of the current revision has ended on an OK response
TicketEnded ==
    /\ Done
    /\ rev = "csv"
    /\ ToolCall("getTicket")
    /\ Returned
    /\ ~Failed(Answers("primary")[1].outcome)

\* C8: getTicket for id N on an export of rows succeeds only if a row has id
\* N, with a record built from a row of id N; if no row has id N it ends in
\* the failure record "Ticket N not found".
C8_TicketFromMatchingRow ==
    TicketEnded =>
        LET N == request.params.arguments.id
            body == Answers("primary")[1].outcome.body
        IN \A rows \in RowSeqs, enc \in Encodings :
              body = CsvBody(rows, enc) =>
                  IF \E k \in 1..Len(rows) : RowId(rows[k]) = N
                  THEN \E k \in 1..Len(rows) :
                          RowId(rows[k]) = N /\ TicketFromRow(Record, N, rows[k])
                  ELSE NotFoundRecord(Record, N)

\* A lookup has succeeded on an export whose first row is another ticket
C8_Witness ==
    /\ TicketEnded
    /\ \E rows \in RowSeqs, enc \in Encodings :
          /\ Len(rows) = 2
          /\ Answers("primary")[1].outcome.body = CsvBody(rows, enc)
          /\ RowId(rows[1]) \notin {0, request.params.arguments.id}
          /\ TicketFromRow(Record, request.params.arguments.id, rows[2])

\* The body is an export with no data row
NoDataRow(body) == body = <<>> \/ \E enc \in Encodings : body = CsvBody(<<>>, enc)

\* C9: on an export with fewer than 2 lines, searchTickets ends with an empty
\* result list and no error, and getTicket ends in a "not found" failure record.
C9_NoResultsOrNotFound ==
    (Done /\ rev = "csv" /\ AllAnswers # <<>> /\ ~Failed(AllAnswers[1].outcome)
          /\ NoDataRow(AllAnswers[1].outcome.body))
        => /\ ToolCall("searchTickets") =>
                 (EndRecord.results = <<>> /\ "error" \notin DOMAIN EndRecord)
           /\ ToolCall("getTicket") =>
                 (Returned /\ NotFoundRecord(Record, request.params.arguments.id))

\* C10: the primary search request asks for at most 50 rows, the fallback
\* request for at most 100, the timeline request for at most 100 events, and
\* the diff a changeset is returned with holds at most 10000 characters.
C10_CountsClamped ==
    /\ (rev = "csv" /\ ToolCall("searchTickets")) =>
          /\ \A k \in 1..Len(Requests("primary")) :
                ParseInt(Requests("primary")[k].url.max) <= 50
          /\ \A k \in 1..Len(Requests("fallback")) :
                ParseInt(Requests("fallback")[k].url.max) <= 100
    /\ ToolCall("getTimeline") =>
          \A k \in 1..Len(Requests("primary")) :
              ParseInt(Requests("primary")[k].url.max) <= 100
    /\ (Done /\ ToolCall("getChangeset") /\ Returned
             /\ "changeset" \in DOMAIN Record.metadata) =>
          Record.metadata.changeset.diff.length <= 10000

\* A search that asked for 500 rows has sent both requests, clamped
C10_Witness ==
    /\ SearchEnded
    /\ request.params.arguments = [query |-> <<"media">>, limit |-> 500]
    /\ Len(Requests("fallback")) = 1
    /\ Requests("primary")[1].url.max = <<"5", "0">>
    /\ Requests("fallback")[1].url.max = <<"1", "0", "0">>

\* C11: the lookback window of every timeline request is at most 30 days, and
\* 7 days when the caller gives none.
C11_LookbackAtMost30 ==
    ToolCall("getTimeline") =>
        \A k \in 1..Len(Requests("primary")) :
            /\ ParseInt(Requests("primary")[k].url.from) <= 30
            /\ "days" \notin DOMAIN request.params.arguments
                  => ParseInt(Requests("primary")[k].url.from) = 7

\* The limit of the search at hand, 10 when the caller gives none
SearchLimit ==
    IF "limit" \in DOMAIN request.params.arguments
    THEN request.params.arguments.limit ELSE 10

\* C12: a search never returns more tickets than the smaller of limit and 50,
\* on the primary path and on the fallback path.
C12_ResultsWithinLimit ==
    SearchEnded =>
        Len(EndRecord.results) <= (IF SearchLimit < 50 THEN SearchLimit ELSE 50)

\* s can be had from t by leaving elements out
RECURSIVE IsSubsequence(_, _)
IsSubsequence(s, t) ==
    IF s = <<>> THEN TRUE
    ELSE IF t = <<>> THEN FALSE
    ELSE IF Head(s) = Head(t) THEN IsSubsequence(Tail(s), Tail(t))
    ELSE IsSubsequence(s, Tail(t))

\* The ids at the head of the lines of `body` that hold the query, in order
MatchingIds(body, query) ==
    LET lines == SelectSeq(Split(body, "\n"),
                           LAMBDA l : Includes(ToLowerCase(l), ToLowerCase(query)))
    IN [k \in 1..Len(lines) |-> ParseInt(lines[k])]

\* The search has ended in a success on the fallback path
FallbackSucceeded ==
    /\ SearchEnded
    /\ Len(Answers("fallback")) = 1
    /\ "error" \notin DOMAIN EndRecord

\* C13: on the fallback path every returned ticket comes from a line that
\* holds the query, case ignored, the tickets keep the upstream order, and no
\* more than limit of them are kept, for every limit including 0.
C13_FilterStopsAtLimit ==
    FallbackSucceeded =>
        LET body == Answers("fallback")[1].outcome.body
            query == request.params.arguments.query
            ids == [k \in 1..Len(EndRecord.results) |-> EndRecord.results[k].id]
        IN /\ BuiltFrom(EndRecord, body, query)
           /\ IsSubsequence(ids, MatchingIds(body, query))
           /\ Len(ids) <= SearchLimit

\* The record carries the advisory note
HasNote(r) ==
    /\ "note" \in DOMAIN r
    /\ r.note = <<"Results filtered client-side due to search API limitations">>

DiffRead ==
    /\ Done
    /\ ToolCall("getChangeset")
    /\ Returned
    /\ Len(Answers("diff")) = 1
    /\ ~Failed(Answers("diff")[1].outcome)

\* The diffLimit of the call at hand, 2000 when the caller gives none
DiffLimit ==
    IF "diffLimit" \in DOMAIN request.params.arguments
    THEN request.params.arguments.diffLimit ELSE 2000

\* C15 as stated: a diff longer than diffLimit is cut to exactly diffLimit
\* characters and the marker, a diff of at most diffLimit characters is
\* returned unchanged without marker.
C15_CutAtDiffLimit ==
    (DiffRead /\ DiffLimit >= 0) =>
        LET upstream == Answers("diff")[1].outcome.body
            diff == Record.metadata.changeset.diff
        IN IF upstream.length > DiffLimit
           THEN diff.length = DiffLimit /\ diff.marker
           ELSE diff.length = upstream.length /\ ~diff.marker

\* C15, amended: with cut the smaller of diffLimit and 10000, a diff longer
\* than cut is cut to exactly cut characters (none when cut is negative) and
\* the marker, a diff of at most cut characters is returned unchanged
\* without marker.
C15_CutAtCappedDiffLimit ==
    DiffRead =>
        LET upstream == Answers("diff")[1].outcome.body
            diff == Record.metadata.changeset.diff
            cut == IF DiffLimit > 10000 THEN 10000 ELSE DiffLimit
        IN IF upstream.length > cut
           THEN diff.length = (IF cut < 0 THEN 0 ELSE cut) /\ diff.marker
           ELSE diff.length = upstream.length /\ ~diff.marker

\* A diff of 10001 characters was read under diffLimit 20000 and cut at 10000
C15_Witness ==
    /\ DiffRead
    /\ DiffLimit = 20000
    /\ Answers("diff")[1].outcome.body.length = 10001
    /\ Record.metadata.changeset.diff = [length |-> 10000, marker |-> TRUE]

\* getTimeline of the current revision has ended after an OK response
TimelineEnded ==
    /\ Done
    /\ rev = "csv"
    /\ ToolCall("getTimeline")
    /\ Returned
    /\ ~Failed(Answers("primary")[1].outcome)

\* The items of the feed that have both a title and a link
Complete(feed) ==
    SelectSeq(feed, LAMBDA item : item.title.kind # "none" /\ item.link.kind # "none")

\* C16: an item without title or link is left out and the fetch goes on; the
\* events returned, and totalEvents, are as many as the items with both title
\* and link, and they stand in the order of the feed.
C16_EventsOfCompleteItems ==
    TimelineEnded =>
        LET kept == Complete(Answers("primary")[1].outcome.body)
        IN /\ "error" \notin DOMAIN Record
           /\ Len(Record.results) = Len(kept)
           /\ Record.totalEvents = Len(kept)
           /\ \A k \in 1..Len(kept) : Record.results[k].url = kept[k].link.text

\* A feed whose first item has no link has ended in the one event of its
\* second item
C16_Witness ==
    /\ TimelineEnded
    /\ Answers("primary")[1].outcome.body = <<ItemNoLink, ItemPlain>>
    /\ Len(Record.results) = 1
    /\ Record.results[1].url = ItemPlain.link.text

\* The record has a title and a text, neither empty
TitledRecord(r) ==
    /\ "title" \in DOMAIN r
    /\ r.title # <<>>
    /\ "text" \in DOMAIN r
    /\ r.text # <<>>

\* The result records a call of the current revision has ended with: the
\* entries of a result list, a failed list fetcher's own record, or the one
\* record of a single lookup
ResultRecords ==
    IF "results" \in DOMAIN EndRecord
    THEN (IF "error" \in DOMAIN EndRecord THEN {EndRecord} ELSE {})
            \cup Range(EndRecord.results)
    ELSE {EndRecord}

\* C17: every result record of every fetcher, on success and on failure, has
\* a title and a text that are not empty.
C17_TitleAndTextNeverEmpty ==
    (Done /\ rev = "csv" /\ FetcherCall /\ "error" \notin DOMAIN response
          /\ "thrown" \notin DOMAIN response)
        => \A r \in ResultRecords : TitledRecord(r)

\* ------------------------------------------------- calls running together

\* The call that runs, as one record
Running ==
    [pc |-> pc, request |-> request, locals |-> locals, log |-> log,
     response |-> response]

\* The worker's fetch handler awaits handleMcpRequest for every request that
\* arrives (index.ts:1301, 2214): while one call is suspended at an await the
\* other runs on, up to its own next await
Switch ==
    /\ Running # parked
    /\ parked' = Running
    /\ pc' = parked.pc
    /\ request' = parked.request
    /\ locals' = parked.locals
    /\ log' = parked.log
    /\ response' = parked.response
    /\ UNCHANGED <<rev, ticketCache>>

ConcurrentSearchArgs ==
    {[query |-> <<"media">>], [query |-> <<"media">>, limit |-> 1]}

ConcurrentQueryOutcomes ==
    {NetworkError, Ok200(Value(<<1>>)), Ok200(Value(<<1, 2>>))}

ConcurrentTicketOutcomes ==
    {NetworkError, Ok200(Value(AttrsFull)), Ok200(Value(AttrsBlank))}

ConcurrentChangeLogOutcomes == {NetworkError, Ok200(Value(<<>>))}

ConcurrentCsvOutcomes ==
    {NetworkError, Ok200(<<>>), Ok200(CsvBody(<<Row1>>, "lf"))}

\* Two calls of searchTickets and getTicket, interleaved at their awaits
ConcurrentNext ==
    \/ \E id \in RequestIds, args \in ConcurrentSearchArgs :
            RpcSearchTicketsCall(id, args)
    \/ \E o \in ConcurrentQueryOutcomes : RpcSearchTicketsQuery(o)
    \/ \E i \in 1..2, o \in ConcurrentTicketOutcomes : RpcSearchTicketsGet(i, o)
    \/ \E id \in RequestIds : RpcGetTicketCall(id, [id |-> 1])
    \/ \E o \in ConcurrentTicketOutcomes : RpcGetTicketGet(o)
    \/ \E o \in ConcurrentChangeLogOutcomes : RpcGetTicketChangeLog(o)
    \/ \E id \in RequestIds : GetTicketCall(id, [id |-> 1])
    \/ \E o \in ConcurrentCsvOutcomes : GetTicketPrimary(o)
    \/ Switch
    \/ Return

ConcurrentSpec == Init /\ [][ConcurrentNext]_vars

\* A message or a call without the JSON-RPC id the client chose for it
WithoutId(m) == [k \in DOMAIN m \ {"id"} |-> m[k]]

\* Two calls have ended that were sent the same request and met the same
\* upstream traffic, answer for answer
SameCallSameAnswers ==
    /\ pc = "done"
    /\ parked.pc = "done"
    /\ WithoutId(request) = WithoutId(parked.request)
    /\ log = parked.log

\* C18: tool calls running together share nothing that changes but
\* ticketCache, and ticketCache never reaches a result: two calls sent the same
\* request that meet the same upstream responses return the same output,
\* however their steps interleave and whatever ticketCache held while they ran
C18_OutputApartFromCache ==
    SameCallSameAnswers => WithoutId(response) = WithoutId(parked.response)

\* Two such searches have ended with an error record for a ticket that
\* ticketCache holds, written by another call
C18_Witness ==
    /\ SameCallSameAnswers
    /\ ToolCall("searchTickets")
    /\ Returned
    /\ \E k \in 1..Len(Record.results) :
            /\ Record.results[k].metadata.status = <<"error">>
            /\ \E e \in ticketCache : e.key = Record.results[k].id

\* ------------------------------------------ the search tool's query classifier

\* The strings the classifier is given: numbers, bare and prefixed, the
\* words for recent activity, keywords, and strings that are nearly one shape
\* or several at once
SearchQueries ==
    {<<>>,
     <<"6", "1", "2", "3", "4">>, <<"#", "6", "1", "2", "3", "4">>,
     <<"r", "5", "8", "5", "0", "4">>, <<"R", "5", "8", "5", "0", "4">>,
     <<"5", "8", "5", "0", "4">>, <<"0">>, <<"#", "1">>, <<"r", "1">>,
     <<"recent">>, <<"timeline">>, <<"latest">>,
     <<"media">>, <<"Block", " ", "Editor">>, <<"recent", " ", "media">>,
     <<"#">>, <<"r">>, <<"R">>, <<"#", "r", "1">>, <<"r", "#", "1">>,
     <<"1", " ", "2">>, <<"r", "1", "x">>, <<"-", "1">>, <<"1", "r">>}

\* /^\d+$/
IsInteger(s) == s # <<>> /\ \A i \in 1..Len(s) : IsDigit(s[i])

\* A ticket shape that insists on the '#'
HashTicketShape(q) == q # <<>> /\ Head(q) = "#" /\ IsInteger(Tail(q))

\* Rule 1: an integer, optionally prefixed with '#'
TicketShape(q) == IsInteger(q) \/ (q # <<>> /\ Head(q) = "#" /\ IsInteger(Tail(q)))

\* Rule 2: an integer prefixed with 'r', in either case
ChangesetShape(q) == q # <<>> /\ Head(q) \in {"r", "R"} /\ IsInteger(Tail(q))

\* Rule 3: one of the words for recent activity
RecentShape(q) == q \in {<<"recent">>, <<"timeline">>, <<"latest">>}

\* One fetcher and the parameters it is invoked with
Invocation(name, arguments) == [name |-> name, arguments |-> arguments]

\* What each rule makes of the string, taken alone: nothing if the string
\* has not the rule's shape
TicketRule(q) ==
    IF TicketShape(q)
    THEN {Invocation("getTicket",
                     [id |-> ParseInt(IF Head(q) = "#" THEN Tail(q) ELSE q)])}
    ELSE {}

ChangesetRule(q) ==
    IF ChangesetShape(q)
    THEN {Invocation("getChangeset", [revision |-> ParseInt(Tail(q))])}
    ELSE {}

RecentRule(q) ==
    IF RecentShape(q) THEN {Invocation("getTimeline", NoArgs)} ELSE {}

KeywordRule(q) == {Invocation("searchTickets", [query |-> q])}

ClassifierRules(q) == <<TicketRule(q), ChangesetRule(q), RecentRule(q), KeywordRule(q)>>

\* Every rule whose shape the string has, whatever came before it
InvocationsOfEveryRule(q) ==
    UNION {ClassifierRules(q)[k] : k \in 1..Len(ClassifierRules(q))}

\* The rules in order: a rule counts only where no rule before it does
Invocations(q) ==
    LET rules == ClassifierRules(q)
    IN UNION {rules[k] : k \in {k \in 1..Len(rules) :
                                 \A j \in 1..(k - 1) : rules[j] = {}}}

\* tools/call search: the string is classified and the fetcher it names is
\* invoked as a call of that tool is
SearchCall(id, q) ==
    \E inv \in Invocations(q) :
        \/ /\ inv.name = "getTicket"
           /\ GetTicketCall(id, inv.arguments) \/ RpcGetTicketCall(id, inv.arguments)
        \/ /\ inv.name = "getChangeset"
           /\ GetChangesetCall(id, inv.arguments)
        \/ /\ inv.name = "getTimeline"
           /\ GetTimelineCall(id, inv.arguments)
        \/ /\ inv.name = "searchTickets"
           /\ SearchTicketsCall(id, inv.arguments)
                \/ RpcSearchTicketsCall(id, inv.arguments)

\* The search tool alone: every call is classified, and the fetcher runs on
ClassifierNext ==
    \/ \E id \in RequestIds, q \in SearchQueries : SearchCall(id, q)
    \/ \E o \in CsvOutcomes : SearchTicketsPrimary(o)
    \/ \E o \in CsvOutcomes : SearchTicketsFallback(o)
    \/ \E o \in CsvOutcomes : GetTicketPrimary(o)
    \/ \E o \in PageOutcomes : GetChangesetPage(o)
    \/ \E o \in DiffOutcomes : GetChangesetDiff(o)
    \/ \E o \in FeedOutcomes : GetTimelineFeed(o)
    \/ \E o \in QueryOutcomes : RpcSearchTicketsQuery(o)
    \/ \E i \in 1..MaxIds, o \in TicketOutcomes : RpcSearchTicketsGet(i, o)
    \/ \E o \in RpcTicketOutcomes : RpcGetTicketGet(o)
    \/ \E o \in ChangeLogOutcomes : RpcGetTicketChangeLog(o)
    \/ Return

ClassifierSpec == Init /\ [][ClassifierNext]_vars

\* The routing the ordered rules prescribe for a string: the fetcher and the
\* parameters it is invoked with
RouteClaimed(q) ==
    IF IsInteger(q)
    THEN Invocation("getTicket", [id |-> ParseInt(q)])
    ELSE IF q # <<>> /\ Head(q) = "#" /\ IsInteger(Tail(q))
    THEN Invocation("getTicket", [id |-> ParseInt(Tail(q))])
    ELSE IF q # <<>> /\ Head(q) \in {"r", "R"} /\ IsInteger(Tail(q))
    THEN Invocation("getChangeset", [revision |-> ParseInt(Tail(q))])
    ELSE IF q \in {<<"recent">>, <<"timeline">>, <<"latest">>}
    THEN Invocation("getTimeline", NoArgs)
    ELSE Invocation("searchTickets", [query |-> q])

C20_ExactlyOneInvocation ==
    pc = "idle" =>
        \A q \in SearchQueries :
            /\ Cardinality(Invocations(q)) = 1
            /\ \A id \in RequestIds : ENABLED SearchCall(id, q)

\* The empty string has been classified and its fetcher invoked
C20_Witness ==
    /\ pc \in {"searchPrimary", "rpcQuery"}
    /\ request.params = Invocation("searchTickets", [query |-> <<>>])

\* ------------------------------------------------ exports with quoted fields

\* The tracker's CSV writer: a field that holds a comma or a quote goes out
\* between quotes, every quote in it doubled
RECURSIVE DoubleQuotes(_)
DoubleQuotes(s) ==
    IF s = <<>> THEN <<>>
    ELSE IF Head(s) = "\"" THEN <<"\"", "\"">> \o DoubleQuotes(Tail(s))
    ELSE <<Head(s)>> \o DoubleQuotes(Tail(s))

NeedsQuotes(s) == \E i \in 1..Len(s) : s[i] \in {",", "\""}

WriteField(s) ==
    IF NeedsQuotes(s) THEN <<"\"">> \o DoubleQuotes(s) \o <<"\"">> ELSE s

\* say "media"
SaidField == <<"see", " ", "\"", "media", "\"">>

\* a",b
QuoteCommaField == <<"media", "\"", ",", "upload">>

\* media, upload
CommaField == <<"media", ",", " ", "upload">>

\* a comma field that begins and ends with a blank
PaddedField == <<" ", "media", ",", "upload", " ">>

PlainField == <<"media">>

\* The tickets upstream holds, by the values of their columns
QuotedTickets ==
    {[id |-> 1, summary |-> SaidField, milestone |-> <<"6.0">>],
     [id |-> 1, summary |-> QuoteCommaField, milestone |-> <<"6.1">>],
     [id |-> 1, summary |-> CommaField, milestone |-> <<"6.0", ",", " ", "6.1">>],
     [id |-> 1, summary |-> PaddedField, milestone |-> <<"6.0">>],
     [id |-> 2, summary |-> PlainField, milestone |-> <<"\"", "6.0", "\"">>]}

\* The row the writer makes of a ticket
WriteRow(t) ==
    NumToStr(t.id) \o <<",">> \o WriteField(t.summary)
        \o <<",", "alice", ",", "defect", ",", "new", ",", "high", ",">>
        \o WriteField(t.milestone)

QuotedTicketSeqs == UNION {[1..n -> QuotedTickets] : n \in 0..MaxRows}

WriteBody(tickets, enc) == CsvBody([i \in 1..Len(tickets) |-> WriteRow(tickets[i])], enc)

QuotedOutcomes ==
    {Forbidden403, Ok200(MarkupPage)}
        \cup {Ok200(WriteBody(ts, enc)) : ts \in QuotedTicketSeqs, enc \in Encodings}

QuotedInfoArgs == {[type |-> "milestones"], [type |-> "statuses"]}

\* The three tools that read the export, called on exports with quoted fields
TabularNext ==
    \/ \E id \in RequestIds : SearchTicketsCall(id, [query |-> <<"media">>])
    \/ \E o \in QuotedOutcomes : SearchTicketsPrimary(o)
    \/ \E o \in QuotedOutcomes : SearchTicketsFallback(o)
    \/ \E id \in RequestIds, i \in {1, 2} : GetTicketCall(id, [id |-> i])
    \/ \E o \in QuotedOutcomes : GetTicketPrimary(o)
    \/ \E id \in RequestIds, args \in QuotedInfoArgs : GetTracInfoCall(id, args)
    \/ \E o \in QuotedOutcomes : GetTracInfoExport(o)
    \/ Return

TabularSpec == Init /\ [][TabularNext]_vars

\* The call of a tool that reads the export has ended on the export of `ts`
ExportRead(ts) ==
    /\ Done
    /\ TabularCall
    /\ Returned
    /\ Len(AllAnswers) = 1
    /\ \E enc \in Encodings : AllAnswers[1].outcome = Ok200(WriteBody(ts, enc))

HasQuote(s) == \E i \in 1..Len(s) : s[i] = "\""

HasComma(s) == \E i \in 1..Len(s) : s[i] = ","

\* The row getTicket is to find: the first one of the requested id
FirstOfId(ts, k) ==
    /\ ts[k].id = request.params.arguments.id
    /\ \A j \in 1..(k - 1) : ts[j].id # request.params.arguments.id

\* The summary of the k-th ticket is in the record as upstream holds it
SummaryBack(ts, k) ==
    IF ToolCall("searchTickets")
    THEN /\ k <= Len(Record.results)
         /\ Record.results[k].title = ts[k].summary
    ELSE IF ToolCall("getTicket") /\ FirstOfId(ts, k)
    THEN /\ "ticket" \in DOMAIN Record.metadata
         /\ Record.metadata.ticket.summary = ts[k].summary
    ELSE TRUE

\* The milestone of the k-th ticket is in the record as upstream holds it
MilestoneBack(ts, k) ==
    IF ToolCall("searchTickets")
    THEN /\ k <= Len(Record.results)
         /\ Record.results[k].metadata.milestone = ts[k].milestone
    ELSE IF ToolCall("getTicket") /\ FirstOfId(ts, k)
    THEN /\ "ticket" \in DOMAIN Record.metadata
         /\ Record.metadata.ticket.milestone = ts[k].milestone
    ELSE IF ToolCall("getTracInfo") /\ request.params.arguments.type = "milestones"
    THEN /\ "data" \in DOMAIN Record.metadata
         /\ ts[k].milestone \in Range(Record.metadata.data)
    ELSE TRUE

\* C21: in every row parser (ticket search, single ticket, metadata) the
\* doubled quote inside a quoted field gives one quote in the parsed field
\* and does not end the field: a field that holds a quote comes back as
\* upstream holds it.
C21_DoubledQuoteIsOneQuote ==
    \A ts \in QuotedTicketSeqs :
        ExportRead(ts) =>
            \A k \in 1..Len(ts) :
                /\ HasQuote(ts[k].summary) => SummaryBack(ts, k)
                /\ HasQuote(ts[k].milestone) => MilestoneBack(ts, k)

\* C22: in every row parser a field that holds a comma and goes out between
\* quotes is parsed back to the very string, the comma in it, nothing added,
\* removed or trimmed.
C22_CommaFieldRoundTrip ==
    \A ts \in QuotedTicketSeqs :
        ExportRead(ts) =>
            \A k \in 1..Len(ts) :
                /\ HasComma(ts[k].summary) => SummaryBack(ts, k)
                /\ HasComma(ts[k].milestone) => MilestoneBack(ts, k)

\* The fields the parser of the tool that ran makes of the row of a ticket
FieldsOfRow(t) ==
    IF ToolCall("searchTickets") THEN SimpleParseLine(Trim(WriteRow(t)))
    ELSE BetterParseLine(Trim(WriteRow(t)))

\* C23: on a valid export with a well-formed header and N data rows the
\* tabular parser makes exactly N records, each of as many fields as the
\* header has: ticket search returns N tickets, and in ticket search and in
\* the metadata lookup every row is split into the header's number of fields.
C23_OneRecordPerRow ==
    \A ts \in QuotedTicketSeqs :
        ExportRead(ts) /\ (ToolCall("searchTickets") \/ ToolCall("getTracInfo")) =>
            /\ ToolCall("searchTickets") => Len(Record.results) = Len(ts)
            /\ \A k \in 1..Len(ts) :
                  Len(FieldsOfRow(ts[k])) = Len(ParseHeaders(HeaderLine))

\* The response is a JSON-RPC error of the code
ErrorOfCode(code) == "error" \in DOMAIN response /\ response.error.code = code

KnownMethods == {"initialize", "tools/list", "tools/call"}

\* A tools/call with arguments of a name no tool has
UnknownToolCall ==
    /\ request.method = "tools/call"
    /\ "params" \in DOMAIN request
    /\ "arguments" \in DOMAIN request.params
    /\ \A i \in 1..Len(ToolNames) : request.params.name # ToolNames[i]

\* C24: a dispatch failure can be told from a failure record: an unknown
\* tool name is answered with the JSON-RPC error -32603, an unknown method
\* with the JSON-RPC error -32601, and every call of a known fetcher,
\* whatever fails in it, is answered with a JSON-RPC result, never an error.
C24_DispatchFailuresApart ==
    Done =>
        /\ UnknownToolCall => ErrorOfCode(InternalErrorCode)
        /\ request.method \notin KnownMethods => ErrorOfCode(MethodNotFoundCode)
        /\ FetcherCall =>
              "error" \notin DOMAIN response /\ "thrown" \notin DOMAIN response

\* What a row of the export holds in the column a type names, read off the row
RowField(row, type) ==
    CASE row = Row1 ->
            (CASE type = "types" -> <<"defect">> [] type = "statuses" -> <<"new">>
               [] type = "priorities" -> <<"high">> [] OTHER -> <<"6.0">>)
      [] row = Row2 ->
            (CASE type = "types" -> <<"enhancement">>
               [] type = "statuses" -> <<"closed">>
               [] type = "priorities" -> <<"low">> [] OTHER -> <<>>)
      [] row = Row5 ->
            (CASE type = "types" -> <<"task">> [] type = "statuses" -> <<"reopened">>
               [] type = "priorities" -> <<"low">> [] OTHER -> <<"6.1">>)
      [] OTHER -> <<>>

\* getTracInfo of the current revision has ended in success
InfoEnded ==
    /\ Done
    /\ rev = "csv"
    /\ ToolCall("getTracInfo")
    /\ Returned
    /\ "data" \in DOMAIN Record.metadata

\* C25: on success the metadata lookup returns the distinct non-empty values
\* of the column the requested type names, none twice, in ascending order,
\* and total is the number of values returned.
C25_DistinctSortedValues ==
    InfoEnded =>
        LET type == request.params.arguments.type
            body == Answers("primary")[1].outcome.body
            data == Record.metadata.data
        IN /\ \A rows \in RowSeqs, enc \in Encodings :
                 body = CsvBody(rows, enc) =>
                     Range(data)
                         = {RowField(rows[k], type) : k \in 1..Len(rows)} \ {<<>>}
           /\ \A i, j \in 1..Len(data) : i < j => StrLess(data[i], data[j])
           /\ Record.metadata.total = Len(data)

\* A lookup has returned two values of rows that hold them in the other order
C25_Witness ==
    /\ InfoEnded
    /\ Len(Record.metadata.data) = 2
    /\ \E rows \in RowSeqs, enc \in Encodings :
          /\ Answers("primary")[1].outcome.body = CsvBody(rows, enc)
          /\ Len(rows) = 2
          /\ RowField(rows[2], request.params.arguments.type)
                = Record.metadata.data[1]

\* getTicket of the current revision has ended in success
TicketSucceeded == TicketEnded /\ "ticket" \in DOMAIN Record.metadata

\* C26: a single ticket lookup that succeeds holds exactly one synthetic note
\* in its comments when comments are wanted (includeComments true or left
\* out) and no comment when includeComments is false, and totalComments is
\* the length of the comments list.
C26_OneSyntheticNote ==
    TicketSucceeded =>
        LET wanted == Arg(request.params.arguments, "includeComments", TRUE)
            comments == Record.metadata.comments
        IN /\ Len(comments) = (IF wanted THEN 1 ELSE 0)
           /\ wanted => comments[1].author = <<"system">>
           /\ Record.metadata.totalComments = Len(comments)

\* A lookup with includeComments false has succeeded
C26_Witness ==
    /\ TicketSucceeded
    /\ "includeComments" \in DOMAIN request.params.arguments
    /\ ~request.params.arguments.includeComments
    /\ Record.metadata.totalComments = 0

\* C27: the fallback path of ticket search maps the columns of the export to
\* the fields of a ticket as the primary path does: every ticket the fallback
\* path returns is the record the primary path builds from the same row
\* (status, owner, type, priority, milestone).
C27_SameColumnsOnBothPaths ==
    FallbackSucceeded =>
        \A k \in 1..Len(EndRecord.results) :
            \E line \in Range(Split(Answers("fallback")[1].outcome.body, "\n")) :
                LET values == SimpleParseLine(Trim(line))
                IN /\ IsTicketRow(values)
                   /\ EndRecord.results[k] = PrimaryTicket(values)

\* The response is a JSON-RPC 2.0 envelope for the request: its id, and a
\* result that wraps the serialized record, or else an error
Enveloped ==
    /\ "jsonrpc" \in DOMAIN response
    /\ response.jsonrpc = "2.0"
    /\ "id" \in DOMAIN response
    /\ response.id = request.id
    /\ ("result" \in DOMAIN response) # ("error" \in DOMAIN response)
    /\ "result" \in DOMAIN response =>
          /\ "content" \in DOMAIN response.result
          /\ Len(response.result.content) = 1
          /\ response.result.content[1].type = "text"

\* C28: every tools/call of a known tool, on every path, the fallback path of
\* ticket search too, is answered with a JSON-RPC 2.0 envelope: jsonrpc "2.0",
\* the id of the request, exactly one of result and error, the result holding
\* the serialized record of the tool.
C28_AlwaysEnveloped == (Done /\ FetcherCall) => Enveloped

\* A tools/call that lacks its params, or the arguments in them
CallWithoutArguments ==
    /\ request.method = "tools/call"
    /\ "params" \notin DOMAIN request \/ "arguments" \notin DOMAIN request.params

\* C29: handleMcpRequest never throws for a request that passed the schema:
\* a tools/call without params, or without arguments, is answered with a
\* JSON-RPC error that carries the id of the request, and the exception does
\* not reach the fetch handler, whose catch answers "Parse error" without id.
C29_NeverThrows ==
    Done =>
        /\ "thrown" \notin DOMAIN response
        /\ CallWithoutArguments =>
              /\ "error" \in DOMAIN response
              /\ response.id = request.id

\* The position in the log of the first event of a kind, 0 if there is none
FirstAt(ev, which) ==
    IF \E k \in 1..Len(log) : log[k].ev = ev /\ log[k].which = which
    THEN CHOOSE k \in 1..Len(log) :
            /\ log[k].ev = ev /\ log[k].which = which
            /\ \A j \in 1..(k - 1) : ~(log[j].ev = ev /\ log[j].which = which)
    ELSE 0

\* C30: in ticket search the fallback request goes out only after the primary
\* request has come back with an OK status and a markup body: a primary
\* request that throws or comes back with another status (403, say) ends the
\* call in failure with no fallback request, and a fallback response of a
\* status that is not OK ends the call in failure with its body unread.
C30_FallbackOnlyAfterOkMarkup ==
    (rev = "csv" /\ ToolCall("searchTickets")) =>
        /\ Len(Requests("fallback")) > 0 =>
              /\ Len(Answers("primary")) = 1
              /\ ~Failed(Answers("primary")[1].outcome)
              /\ HoldsMarkup(Answers("primary")[1].outcome)
              /\ FirstAt("answer", "primary") < FirstAt("fetch", "fallback")
        /\ (Len(Answers("primary")) = 1 /\ Failed(Answers("primary")[1].outcome)) =>
              /\ Done
              /\ Len(Requests("fallback")) = 0
              /\ "error" \in DOMAIN EndRecord
        /\ (Len(Answers("fallback")) = 1 /\ Failed(Answers("fallback")[1].outcome)) =>
              /\ Done
              /\ "error" \in DOMAIN EndRecord
              /\ \A k \in 1..Len(log) :
                    ~(log[k].ev = "text" /\ log[k].which = "fallback")

\* A search has ended in failure on a fallback response of status 403
C30_Witness ==
    /\ SearchEnded
    /\ Len(Answers("fallback")) = 1
    /\ Answers("fallback")[1].outcome = Forbidden403
    /\ "error" \in DOMAIN EndRecord

====
